---- MODULE Spec2Model ----
(***************************************************************************)
(* State-machine model of the StickerJournal page component                *)
(* (src/app/page.tsx) and of its OCR route (src/unnamed/part_000).         *)
(*                                                                         *)
(* Text that the program trims, splits, searches or concatenates (titles,   *)
(* bodies, badge labels, note texts, the mood, the query) is a sequence of *)
(* one-character strings.  Status messages, icon names and style classes,  *)
(* which the program only stores and shows, are plain strings.             *)
(* An optional property of an object is a record [st, v] whose st is       *)
(* "some", "undefined" (key present, value undefined) or "absent".         *)
(***************************************************************************)
EXTENDS Integers, Sequences, FiniteSets, TLC

\* ------------------------------------------------------------------ bounds
MaxClock == 1
MaxEntries == 2
MaxNotes == 2
MaxImages == 1
MaxScans == 2
MaxContentLen == 3
ComposerEntryCap == 1
\* The clock counts milliseconds; one calendar day has DayLength of them.
DayLength == 2

\* -------------------------------------------------------- program constants
NoteHeight == 136
NoteOffsetStep == 14
NoteBaseX == 26
NoteBaseY == 84
NoteWidth == 180
DefaultImageWidth == 183
DefaultImageX == 24
DefaultImageY == 24

\* null in a useState<number | null>
Null == -1000
\* null in useState<string | null>
NullKey == << >>

\* ------------------------------------------------------------------ strings
\* the characters the regular expression class \s and trim() treat as blank
IsSpace(c) == c \in {" ", "\n", "\t", "\r"}

RECURSIVE TrimStart(_)
TrimStart(s) ==
  IF s = << >> THEN << >>
  ELSE IF IsSpace(Head(s)) THEN TrimStart(Tail(s)) ELSE s

RECURSIVE TrimEnd(_)
TrimEnd(s) ==
  IF s = << >> THEN << >>
  ELSE IF IsSpace(s[Len(s)]) THEN TrimEnd(SubSeq(s, 1, Len(s) - 1)) ELSE s

\* String.prototype.trim
Trim(s) == TrimEnd(TrimStart(s))

\* a || b on strings: the empty string is falsy
OrElse(s, fallback) == IF s # << >> THEN s ELSE fallback

\* whether pat occurs in s at position i
OccursAt(s, pat, i) ==
  /\ i + Len(pat) - 1 <= Len(s)
  /\ \A k \in 1..Len(pat) : s[i + k - 1] = pat[k]

\* String.prototype.includes
Includes(s, pat) == \E i \in 1..(Len(s) + 1) : OccursAt(s, pat, i)

\* String.prototype.replace with a string pattern: the first occurrence only
ReplaceFirst(s, pat, rep) ==
  IF ~Includes(s, pat) THEN s
  ELSE LET i == CHOOSE k \in 1..(Len(s) + 1) :
                  OccursAt(s, pat, k) /\ \A j \in 1..(k - 1) : ~OccursAt(s, pat, j)
       IN SubSeq(s, 1, i - 1) \o rep \o SubSeq(s, i + Len(pat), Len(s))

Uppers == << "A", "B", "C", "D", "E", "F", "G", "H", "I", "J", "K", "L", "M",
             "N", "O", "P", "Q", "R", "S", "T", "U", "V", "W", "X", "Y", "Z" >>
Lowers == << "a", "b", "c", "d", "e", "f", "g", "h", "i", "j", "k", "l", "m",
             "n", "o", "p", "q", "r", "s", "t", "u", "v", "w", "x", "y", "z" >>

LowerChar(c) ==
  IF \E i \in 1..26 : Uppers[i] = c
  THEN Lowers[CHOOSE i \in 1..26 : Uppers[i] = c] ELSE c

\* String.prototype.toLowerCase
toLowerCase(s) == [i \in 1..Len(s) |-> LowerChar(s[i])]

UntitledMemory == << "U", "n", "t", "i", "t", "l", "e", "d", " ", "m", "e", "m", "o", "r", "y" >>
NoNotesAdded == << "N", "o", " ", "n", "o", "t", "e", "s", " ", "a", "d", "d", "e", "d", "." >>
NewStickyNoteText == << "N", "e", "w", " ", "s", "t", "i", "c", "k", "y", " ", "n", "o", "t", "e", ".", ".", "." >>

\* ---------------------------------------------------------- optional values
Some(v) == [st |-> "some", v |-> v]
Undefined == [st |-> "undefined", v |-> << >>]
Absent == [st |-> "absent", v |-> << >>]

\* ------------------------------------------------------------------- dates
\* formatDateLabel: the "Mon D, YYYY" text of the local calendar day
formatDateLabel(t) == << "day", t \div DayLength >>

\* -------------------------------------------------- sequence helper (map)
MapSeq(s, F(_)) == [i \in 1..Len(s) |-> F(s[i])]

\* ------------------------------------------------------------ literal tables
\* moodStickers (title, token)
\* moodStickers (title, token); a token is one pictograph
moodStickers ==
  << [title |-> << "H", "a", "p", "p", "y" >>, token |-> "U+1F600"],
     [title |-> << "C", "a", "l", "m" >>, token |-> "U+1F9D8"],
     [title |-> << "S", "t", "r", "e", "s", "s", "e", "d" >>, token |-> "U+1F62E"],
     [title |-> << "S", "l", "e", "e", "p", "y" >>, token |-> "U+1F634"] >>

Feeling == << "F", "e", "e", "l", "i", "n", "g", " " >>

Badge(label, icon, tone) == [label |-> label, icon |-> icon, tone |-> tone]

JournalBadge ==
  Badge(<< "J", "o", "u", "r", "n", "a", "l" >>, "auto_stories",
        "bg-slate-100 text-slate-700 border border-slate-200/90")

ScannedBadge ==
  Badge(<< "S", "c", "a", "n", "n", "e", "d" >>, "document_scanner",
        "bg-violet-50 text-violet-700 border border-violet-200/80")

MoodBadge(label) ==
  Badge(label, "mood", "bg-blue-50 text-blue-700 border border-blue-200/80")

NewSticker ==
  [label |-> "New", icon |-> "fiber_new",
   tone |-> "bg-emerald-100 text-emerald-700", tilt |-> "rotate-3"]

AutoSticker ==
  [label |-> "Auto", icon |-> "auto_awesome",
   tone |-> "bg-cyan-100 text-cyan-700", tilt |-> "-rotate-2"]

\* --------------------------------------------------------------- variables
VARIABLES
  now,               \* the wall clock read by Date.now() / new Date()
  storage,           \* localStorage value under entriesStorageKey
  entries,           \* useState entries
  title, content,    \* composer text
  query,             \* search box
  selectedDateKey,   \* useState selectedDateKey
  mood,              \* useState mood
  placedImages,      \* useState placedImages
  stickyNotes,       \* useState stickyNotes
  draggingImageId,   \* useState draggingImageId
  draggingNoteId,    \* useState draggingNoteId
  dragOffsetRef,     \* useRef dragOffsetRef
  noteDragOffsetRef, \* useRef noteDragOffsetRef
  openEntry,         \* useState openEntry (Some(entry) or Absent)
  isEditingEntry, editingTitle, editingContent,
  scanStatus, scanDialogOpen, scanBusy,
  readers,           \* FileReaders whose onload has not run yet
  requests,          \* scanImageAndSave calls awaiting the /api/ocr response
  scansStarted,      \* number of files handed to scanFiles so far
  timers,            \* pending window.setTimeout callbacks of finished scans
  profileStorage,    \* localStorage value under storageKey
  profile,           \* useState profile (SomeProfile(p) or NoProfile)
  showOnboarding,    \* useState showOnboarding
  nameInput, genderInput,
  route,             \* POST /api/ocr: the request being served and its locals
  lastOp             \* the handler that ran last, and its outcome

composerVars == << title, content, mood, placedImages, stickyNotes >>
dragVars == << draggingImageId, draggingNoteId, dragOffsetRef, noteDragOffsetRef >>
modalVars == << openEntry, isEditingEntry, editingTitle, editingContent >>
scanVars == << scanStatus, scanDialogOpen, scanBusy, readers, requests,
               scansStarted, timers >>
storeVars == << storage, entries >>
profileVars == << profileStorage, profile, showOnboarding, nameInput, genderInput >>
viewVars == << query, selectedDateKey >>

vars == << now, storage, entries, title, content, query, selectedDateKey, mood, placedImages,
           stickyNotes, draggingImageId, draggingNoteId, dragOffsetRef,
           noteDragOffsetRef, openEntry, isEditingEntry, editingTitle,
           editingContent, scanStatus, scanDialogOpen, scanBusy, readers,
           requests, scansStarted, timers, profileStorage, profile,
           showOnboarding, nameInput, genderInput, route, lastOp >>

\* ------------------------------------------------------------- OCR route
\* the models tried by POST, in this order
models == << "gemini-2.5-flash", "gemini-2.0-flash", "gemini-flash-latest" >>

\* !value on an optional string: undefined and "" are falsy
Falsy(o) == o.st # "some" \/ o.v = << >>

\* a response of the route: NextResponse.json(...) or, when the handler
\* raises, the framework's own 500 without a JSON body
NoResponse ==
  [status |-> 0, raised |-> FALSE, error |-> "", details |-> Absent, text |-> Absent]
MissingKeyResponse ==
  [NoResponse EXCEPT !.status = 500, !.error = "Missing GEMINI_API_KEY in environment."]
BadRequestResponse ==
  [NoResponse EXCEPT !.status = 400, !.error = "mimeType and base64 are required."]
FailedResponse(lastError) ==
  [NoResponse EXCEPT !.status = 502, !.error = "Gemini OCR request failed.",
                     !.details = lastError]
TextResponse(text) == [NoResponse EXCEPT !.status = 200, !.text = Some(text)]
RaisedResponse == [NoResponse EXCEPT !.status = 500, !.raised = TRUE]

\* the result of request.json(): a rejection, null, or an object
RequestBody(parses, isNull, mimeType, base64) ==
  [parses |-> parses, isNull |-> isNull, mimeType |-> mimeType, base64 |-> base64]
NoBody == RequestBody(TRUE, TRUE, Absent, Absent)

\* no request served yet
RouteIdle ==
  [pc |-> "idle", apiKey |-> Absent, body |-> NoBody, next |-> 1,
   lastError |-> Absent, calls |-> << >>, answers |-> << >>,
   response |-> NoResponse]

\* a body that passes only when it names a mimeType
BodyIncompleteMimeOnly(body) == body.isNull \/ Falsy(body.mimeType)

\* !body?.mimeType || !body?.base64
BodyIncomplete(body) == body.isNull \/ Falsy(body.mimeType) \/ Falsy(body.base64)

\* callGemini: the fetch sent for one model
callGemini(apiKey, model, mimeType, base64) ==
  [apiKey |-> apiKey, model |-> model, mimeType |-> mimeType, base64 |-> base64]

\* the body of a provider answer that is not ok
ErrorBody(raw, json, isNull, hasMessage, message) ==
  [raw |-> raw, json |-> json, isNull |-> isNull, hasMessage |-> hasMessage,
   message |-> message]
NoErrorBody == ErrorBody(<< >>, FALSE, FALSE, FALSE, << >>)

\* JSON.parse(raw).error?.message ?? raw, and raw when the try block raises
ParsedOrRaw(b) ==
  IF b.json /\ ~b.isNull /\ b.hasMessage THEN b.message ELSE b.raw

\* the body of a provider answer that is ok: response.json() rejects, yields
\* null, or yields an object whose candidates hold lists of parts
Payload(parses, isNull, candidates) ==
  [parses |-> parses, isNull |-> isNull, candidates |-> candidates]
NoPayload == Payload(FALSE, FALSE, << >>)

\* what one fetch of the provider can come to
Rejected == [kind |-> "reject", ok |-> FALSE, body |-> NoErrorBody, payload |-> NoPayload]
NotOk(b) == [kind |-> "response", ok |-> FALSE, body |-> b, payload |-> NoPayload]
Ok(p) == [kind |-> "response", ok |-> TRUE, body |-> NoErrorBody, payload |-> p]

\* whether handling an answer raises out of the loop
AnswerRaises(ans) ==
  \/ ans.kind = "reject"
  \/ ans.ok /\ (~ans.payload.parses \/ ans.payload.isNull)

\* ------------------------------------------------- local persistence adapter
\* JSON.stringify of one entry: a property whose value is undefined is left out
JSONstringifyEntry(e) ==
  [kind |-> "object", typeofId |-> "number", badgesIsArray |-> TRUE,
   entry |-> [e EXCEPT !.images = IF @.st = "undefined" THEN Absent ELSE @,
                       !.notes = IF @.st = "undefined" THEN Absent ELSE @,
                       !.sticker = IF @.st = "undefined" THEN Absent ELSE @]]

\* JSON.stringify(entries)
JSONstringify(list) == [kind |-> "array", items |-> MapSeq(list, JSONstringifyEntry)]

\* .filter((entry) => entry && typeof entry.id === "number")
HasNumericId(item) == item.kind = "object" /\ item.typeofId = "number"

\* the badges test inverted
WithBadgesInverted(item) ==
  [item.entry EXCEPT !.badges = IF item.badgesIsArray THEN << >> ELSE @]

\* .map((entry) => ({...entry, badges: Array.isArray(entry.badges) ? entry.badges : []}))
WithBadges(item) ==
  [item.entry EXCEPT !.badges = IF item.badgesIsArray THEN @ ELSE << >>]

readStoredEntries(raw) ==
  IF raw.kind # "array" THEN << >>
  ELSE MapSeq(SelectSeq(raw.items, HasNumericId), WithBadges)

\* a write of the newest entry alone
PersistNewest(list, writeOk) ==
  IF writeOk THEN JSONstringify(IF list = << >> THEN << >> ELSE << Head(list) >>)
  ELSE storage

\* a write that leaves an empty list behind when setItem throws
PersistOrClear(list, writeOk) ==
  IF writeOk THEN JSONstringify(list) ELSE JSONstringify(<< >>)

\* the persist effect: localStorage.setItem inside try/catch
Persist(list, writeOk) == IF writeOk THEN JSONstringify(list) ELSE storage

\* ------------------------------------------------------------- the profile
NoProfile == [st |-> "absent", v |-> [name |-> << >>, gender |-> "other"]]
SomeProfile(p) == [st |-> "some", v |-> p]

\* JSON.stringify(nextProfile)
JSONstringifyProfile(p) ==
  [kind |-> "value", isNull |-> FALSE, hasName |-> TRUE, hasGender |-> TRUE,
   profile |-> p]

\* readStoredProfile: null unless the stored value parses to an object with a
\* truthy name and a truthy gender
readStoredProfile(raw) ==
  IF raw.kind # "value" THEN NoProfile
  ELSE IF raw.isNull \/ ~raw.hasName \/ raw.profile.name = << >> \/ ~raw.hasGender
       THEN NoProfile
       ELSE SomeProfile(raw.profile)

\* the operation of a read path that throws on the stored value raw
Thrown(raw) ==
  IF raw.kind = "unavailable" THEN { "getItem" }
  ELSE IF raw.kind = "invalid" THEN { "JSON.parse" }
  ELSE { }

\* the read paths with getItem outside of a try block
TryBlocksParseOnly == { "JSON.parse" }

\* the operations readStoredProfile and readStoredEntries run in a try block
TryBlocks == { "getItem", "JSON.parse" }

\* an exception leaves the read path
ReadRaises(raw) == Thrown(raw) \ TryBlocks # { }

\* ------------------------------------------------------------ initial state
\* An entry written by an earlier session (its id is an earlier clock value).
StoredEntry(id, ttl, badges) ==
  [id |-> id, title |-> ttl, content |-> << "o", "l", "d" >>,
   dateLabel |-> formatDateLabel(id), badges |-> badges,
   images |-> Some(<< >>), notes |-> Some(<< >>), sticker |-> Some(NewSticker)]

\* a property of a stored record that is not a string: left out, null or a
\* number. No text is equal to it: a text is a sequence of single characters.
NotText == << "undefined" >>
IsText(v) == v # NotText

StoredObject(typeofId, badgesIsArray, e) ==
  [kind |-> "object", typeofId |-> typeofId, badgesIsArray |-> badgesIsArray,
   entry |-> e]

StoredNull ==
  [kind |-> "null", typeofId |-> "undefined", badgesIsArray |-> FALSE,
   entry |-> StoredEntry(0, << >>, << >>)]

\* Values localStorage may hold under the entries key when the page mounts.
InitialStorage ==
  { [kind |-> "unavailable", items |-> << >>],   \* getItem throws
    [kind |-> "missing", items |-> << >>],       \* getItem returns null
    [kind |-> "invalid", items |-> << >>],       \* JSON.parse throws
    [kind |-> "notArray", items |-> << >>],
    [kind |-> "array", items |-> << >>],
    [kind |-> "array", items |->
       << StoredObject("number", TRUE, StoredEntry(-1, << "a" >>, << JournalBadge >>)) >>],
    [kind |-> "array", items |->
       << StoredNull,
          StoredObject("number", FALSE, StoredEntry(-1, << "b" >>, << >>)),
          StoredObject("string", TRUE, StoredEntry(-2, << "a" >>, << JournalBadge >>)),
          StoredObject("undefined", TRUE, StoredEntry(-3, << "a" >>, << JournalBadge >>)) >>] }

StoredProfile(isNull, hasName, hasGender, name) ==
  [kind |-> "value", isNull |-> isNull, hasName |-> hasName, hasGender |-> hasGender,
   profile |-> [name |-> name, gender |-> "female"]]

ProfileUnreadable(kind) ==
  [kind |-> kind, isNull |-> FALSE, hasName |-> FALSE, hasGender |-> FALSE,
   profile |-> [name |-> << >>, gender |-> "other"]]

ReturningUser == StoredProfile(FALSE, TRUE, TRUE, << "A", "n", "n" >>)

\* Values localStorage may hold under the profile key when the page mounts.
ProfileStorage ==
  { ProfileUnreadable("unavailable"),            \* getItem throws
    ProfileUnreadable("missing"),                \* getItem returns null
    ProfileUnreadable("empty"),                  \* the empty string
    ProfileUnreadable("invalid"),                \* JSON.parse throws
    StoredProfile(TRUE, FALSE, FALSE, << >>),    \* the text null
    StoredProfile(FALSE, FALSE, TRUE, << >>),    \* no name
    StoredProfile(FALSE, TRUE, TRUE, << >>),     \* an empty name
    StoredProfile(FALSE, TRUE, FALSE, << "A", "n", "n" >>),   \* no gender
    ReturningUser }

\* The state after the first render and its effects: the entries are read from
\* storage, and the persist effect writes them back unless setItem throws.
InitReads(raws, praws, writes) ==
  /\ now = 0
  /\ \E raw \in raws, praw \in praws, writeOk \in writes :
       /\ (raw.kind = "unavailable") <=> (praw.kind = "unavailable")
       /\ entries = readStoredEntries(raw)
       /\ storage = IF writeOk /\ raw.kind # "unavailable"
                    THEN JSONstringify(entries) ELSE raw
       /\ profileStorage = praw
       /\ profile = readStoredProfile(praw)
       /\ showOnboarding = (readStoredProfile(praw).st = "absent")
       /\ lastOp = IF ReadRaises(raw) \/ ReadRaises(praw) THEN "mount:raised"
                   ELSE "mount"
  /\ nameInput = << >>
  /\ genderInput = "other"
  /\ title = << >>
  /\ content = << >>
  /\ query = << >>
  /\ selectedDateKey = NullKey
  /\ mood = Feeling \o << "G", "o", "o", "d" >>
  /\ openEntry = Absent
  /\ isEditingEntry = FALSE
  /\ editingTitle = << >>
  /\ editingContent = << >>
  /\ scanStatus = ""
  /\ scanDialogOpen = FALSE
  /\ scanBusy = FALSE
  /\ readers = << >>
  /\ requests = << >>
  /\ scansStarted = 0
  /\ timers = 0
  /\ route = RouteIdle

\* the first render of a user who filled in the onboarding in an earlier session
InitOutsideCanvas(raws, writes) == InitReads(raws, { ReturningUser }, writes)

InitCanvas ==
  /\ placedImages = << >>
  /\ stickyNotes = << >>
  /\ draggingImageId = Null
  /\ draggingNoteId = Null
  /\ dragOffsetRef = [x |-> 0, y |-> 0]
  /\ noteDragOffsetRef = [x |-> 0, y |-> 0]

InitFrom(raws, writes) == InitOutsideCanvas(raws, writes) /\ InitCanvas

Init == InitReads(InitialStorage, ProfileStorage, BOOLEAN) /\ InitCanvas

\* Whether a localStorage.setItem may succeed in the current environment.
WriteOutcomes == IF storage.kind = "unavailable" THEN {FALSE} ELSE BOOLEAN
AlwaysWritable == IF storage.kind = "unavailable" THEN {FALSE} ELSE {TRUE}

\* ------------------------------------------------------------------- clock
Tick ==
  /\ now < MaxClock
  /\ now' = now + 1
  /\ lastOp' = "tick"
  /\ UNCHANGED << route, profileVars, storeVars, composerVars, viewVars, dragVars,
                  modalVars, scanVars >>

\* -------------------------------------------------------------- onboarding
NameInputs == { << " " >>, << " ", "B", "o" >> }
GenderInputs == { "male", "female", "other" }

\* setItem on the profile key may throw (quota, restricted browsers)
ProfileWriteOutcomes == IF profileStorage.kind = "unavailable" THEN {FALSE} ELSE BOOLEAN

\* onChange of the name input of the onboarding dialog
SetNameInput(n) ==
  /\ showOnboarding
  /\ nameInput' = n
  /\ lastOp' = "setNameInput"
  /\ UNCHANGED << now, route, profileStorage, profile, showOnboarding, genderInput,
                  storeVars, composerVars, viewVars, dragVars, modalVars, scanVars >>

\* onChange of the gender select of the onboarding dialog
SetGenderInput(g) ==
  /\ showOnboarding
  /\ genderInput' = g
  /\ lastOp' = "setGenderInput"
  /\ UNCHANGED << now, route, profileStorage, profile, showOnboarding, nameInput,
                  storeVars, composerVars, viewVars, dragVars, modalVars, scanVars >>

\* the Continue button of the onboarding dialog
saveProfile(writeOk) ==
  /\ showOnboarding
  /\ IF Trim(nameInput) = << >>
     THEN /\ lastOp' = "saveProfile:rejected"
          /\ UNCHANGED << profileStorage, profile, showOnboarding >>
     ELSE LET nextProfile == [name |-> Trim(nameInput), gender |-> genderInput]
          IN /\ profileStorage' = IF writeOk THEN JSONstringifyProfile(nextProfile)
                                   ELSE profileStorage
             /\ profile' = SomeProfile(nextProfile)
             /\ showOnboarding' = FALSE
             /\ lastOp' = "saveProfile"
  /\ UNCHANGED << now, route, nameInput, genderInput, storeVars, composerVars, viewVars,
                  dragVars, modalVars, scanVars >>

\* ---------------------------------------------------------------- composer
TitleInputs == { << >>, << " " >>, << " ", "a", " " >> }
ContentInputs == { << >>, << "\n" >>, << "b", " " >> }
QueryInputs == { << >>, << "a" >> }
NoteTextInputs == { << >>, << " " >>, << " ", "n" >> }

\* onChange of the title input
SetTitle(t) ==
  /\ title' = t
  /\ lastOp' = "setTitle"
  /\ UNCHANGED << now, route, profileVars, storeVars, content, mood, placedImages, stickyNotes,
                  viewVars, dragVars, modalVars, scanVars >>

\* onChange of the body textarea
SetContent(c) ==
  /\ content' = c
  /\ lastOp' = "setContent"
  /\ UNCHANGED << now, route, profileVars, storeVars, title, mood, placedImages, stickyNotes,
                  viewVars, dragVars, modalVars, scanVars >>

\* onChange of the search box
SetQuery(q) ==
  /\ query' = q
  /\ lastOp' = "setQuery"
  /\ UNCHANGED << now, route, profileVars, storeVars, composerVars, selectedDateKey, dragVars,
                  modalVars, scanVars >>

\* appendToken's updater
appendToken(prev, token) ==
  LET spacer == IF prev = << >> \/ prev[Len(prev)] = "\n" THEN << >> ELSE << " " >>
  IN prev \o spacer \o << token >>

\* click on a mood sticker: setMood(`Feeling ${sticker.title}`); appendToken
SelectMood(i) ==
  /\ Len(content) < MaxContentLen
  /\ mood' = Feeling \o moodStickers[i].title
  /\ content' = appendToken(content, moodStickers[i].token)
  /\ lastOp' = "selectMood"
  /\ UNCHANGED << now, route, profileVars, storeVars, title, placedImages, stickyNotes, viewVars,
                  dragVars, modalVars, scanVars >>

\* resetComposer without setStickyNotes([])
resetComposerKeepingNotes ==
  [title |-> << >>, content |-> << >>, placedImages |-> << >>,
   stickyNotes |-> stickyNotes]

\* resetComposer: the values the four setters receive
resetComposer ==
  [title |-> << >>, content |-> << >>, placedImages |-> << >>, stickyNotes |-> << >>]

\* the notes of a new entry: trimmed, the empty ones left out
SubmittedNote(note) == [text |-> Trim(note.text), x |-> note.x, y |-> note.y]
HasText(note) == Len(note.text) > 0
SubmittedNotes(notes) == SelectSeq(MapSeq(notes, SubmittedNote), HasText)

SubmittedImage(image) == [src |-> image.src]

\* the guard testing the raw texts instead of the trimmed ones
SubmitRejectedUntrimmed ==
  /\ title = << >>
  /\ content = << >>
  /\ Len(placedImages) = 0
  /\ Len(stickyNotes) = 0

\* the guard of handleSubmit
SubmitRejected ==
  /\ Trim(title) = << >>
  /\ Trim(content) = << >>
  /\ Len(placedImages) = 0
  /\ Len(stickyNotes) = 0

\* the entry with the two placeholders exchanged
SubmittedEntrySwapped ==
  [id |-> now,
   title |-> OrElse(Trim(title), NoNotesAdded),
   content |-> OrElse(Trim(content), UntitledMemory),
   dateLabel |-> formatDateLabel(now),
   images |-> Some(MapSeq(placedImages, SubmittedImage)),
   notes |-> Some(SubmittedNotes(stickyNotes)),
   badges |-> << MoodBadge(OrElse(ReplaceFirst(mood, Feeling, << >>), << "M", "o", "o", "d" >>)), JournalBadge >>,
   sticker |-> Some(NewSticker)]

\* the new entry with the whole mood text as its first badge
SubmittedEntryWholeMood ==
  [id |-> now,
   title |-> OrElse(Trim(title), UntitledMemory),
   content |-> OrElse(Trim(content), NoNotesAdded),
   dateLabel |-> formatDateLabel(now),
   images |-> Some(MapSeq(placedImages, SubmittedImage)),
   notes |-> Some(SubmittedNotes(stickyNotes)),
   badges |-> << MoodBadge(OrElse(mood, << "M", "o", "o", "d" >>)), JournalBadge >>,
   sticker |-> Some(NewSticker)]

SubmittedEntry ==
  [id |-> now,
   title |-> OrElse(Trim(title), UntitledMemory),
   content |-> OrElse(Trim(content), NoNotesAdded),
   dateLabel |-> formatDateLabel(now),
   images |-> Some(MapSeq(placedImages, SubmittedImage)),
   notes |-> Some(SubmittedNotes(stickyNotes)),
   badges |-> << MoodBadge(OrElse(ReplaceFirst(mood, Feeling, << >>), << "M", "o", "o", "d" >>)), JournalBadge >>,
   sticker |-> Some(NewSticker)]

\* setEntries([newEntry]): the new entry in place of the list
ReplaceAll(newEntry, prev) == << newEntry >>

\* [...prev, newEntry] in place of [newEntry, ...prev]
PrependAtEnd(newEntry, prev) == Append(prev, newEntry)

\* setEntries((prev) => [newEntry, ...prev])
Prepend(newEntry, prev) == << newEntry >> \o prev

handleSubmit(writeOk) ==
  IF SubmitRejected
  THEN /\ lastOp' = "handleSubmit:rejected"
       /\ UNCHANGED << now, route, profileVars, storeVars, composerVars, viewVars, dragVars,
                       modalVars, scanVars >>
  ELSE /\ Len(entries) < MaxEntries
       /\ entries' = Prepend(SubmittedEntry, entries)
       /\ storage' = Persist(entries', writeOk)
       /\ query' = << >>
       /\ title' = resetComposer.title
       /\ content' = resetComposer.content
       /\ placedImages' = resetComposer.placedImages
       /\ stickyNotes' = resetComposer.stickyNotes
       /\ lastOp' = "handleSubmit:accepted"
       /\ UNCHANGED << now, route, profileVars, mood, selectedDateKey, dragVars, modalVars, scanVars >>

\* ------------------------------------------------------------------ canvas
Min(a, b) == IF a < b THEN a ELSE b
Max(a, b) == IF a > b THEN a ELSE b

\* Math.round(width * 0.75) for a non-negative width
RoundThreeQuarters(width) == (3 * width + 2) \div 4

\* An uploaded picture as the data URI a FileReader produces
DataURI(mime) == << "data:", mime, ";base64,", "QUJD" >>

\* placeImage(src): a new image at the default position with the default width
PlaceImage(src) ==
  /\ Len(placedImages) < MaxImages
  /\ placedImages' = Append(placedImages,
       [id |-> now, src |-> src, x |-> DefaultImageX, y |-> DefaultImageY,
        width |-> DefaultImageWidth])
  /\ lastOp' = "placeImage"
  /\ UNCHANGED << now, route, profileVars, storeVars, title, content, mood, stickyNotes, viewVars,
                  dragVars, modalVars, scanVars >>

\* "Remove image" button: prev.filter((item) => item.id !== image.id)
RemoveImage(id) ==
  /\ \E i \in 1..Len(placedImages) : placedImages[i].id = id
  /\ LET Keep(item) == item.id # id
     IN placedImages' = SelectSeq(placedImages, Keep)
  /\ lastOp' = "removeImage"
  /\ UNCHANGED << now, route, profileVars, storeVars, title, content, mood, stickyNotes, viewVars,
                  dragVars, modalVars, scanVars >>

addStickyNote ==
  /\ Len(stickyNotes) < MaxNotes
  /\ LET offset == Len(stickyNotes) * NoteOffsetStep
     IN stickyNotes' = Append(stickyNotes,
          [id |-> now, text |-> NewStickyNoteText, x |-> NoteBaseX + offset,
           y |-> NoteBaseY + offset, width |-> NoteWidth])
  /\ lastOp' = "addStickyNote"
  /\ UNCHANGED << now, route, profileVars, storeVars, title, content, mood, placedImages, viewVars,
                  dragVars, modalVars, scanVars >>

updateStickyNoteText(id, text) ==
  /\ \E i \in 1..Len(stickyNotes) : stickyNotes[i].id = id
  /\ LET Upd(note) == IF note.id = id THEN [note EXCEPT !.text = text] ELSE note
     IN stickyNotes' = MapSeq(stickyNotes, Upd)
  /\ lastOp' = "updateStickyNoteText"
  /\ UNCHANGED << now, route, profileVars, storeVars, title, content, mood, placedImages, viewVars,
                  dragVars, modalVars, scanVars >>

\* "Remove sticky note" button: prev.filter((item) => item.id !== note.id)
RemoveNote(id) ==
  /\ \E i \in 1..Len(stickyNotes) : stickyNotes[i].id = id
  /\ LET Keep(item) == item.id # id
     IN stickyNotes' = SelectSeq(stickyNotes, Keep)
  /\ lastOp' = "removeNote"
  /\ UNCHANGED << now, route, profileVars, storeVars, title, content, mood, placedImages, viewVars,
                  dragVars, modalVars, scanVars >>

\* pointer offsets inside the element, pointer positions and canvas rectangles
OffsetInputs == { 0, 10 }
PointerInputs == { -50, 300, 5000 }
RectInputs ==
  { [left |-> 8, top |-> 8, width |-> 600, height |-> 460],
    [left |-> 8, top |-> 8, width |-> 100, height |-> 100] }

\* onPointerDown of a placed image
startImageDrag(offset, imageId) ==
  /\ \E i \in 1..Len(placedImages) : placedImages[i].id = imageId
  /\ dragOffsetRef' = offset
  /\ draggingImageId' = imageId
  /\ lastOp' = "startImageDrag"
  /\ UNCHANGED << now, route, profileVars, storeVars, composerVars, viewVars, draggingNoteId,
                  noteDragOffsetRef, modalVars, scanVars >>

\* onPointerDown of the header of a sticky note
startNoteDrag(offset, noteId) ==
  /\ \E i \in 1..Len(stickyNotes) : stickyNotes[i].id = noteId
  /\ noteDragOffsetRef' = offset
  /\ draggingNoteId' = noteId
  /\ lastOp' = "startNoteDrag"
  /\ UNCHANGED << now, route, profileVars, storeVars, composerVars, viewVars, draggingImageId,
                  dragOffsetRef, modalVars, scanVars >>

\* the upper limit without its Math.max(..., 0)
ClampAxisNoFloor(pointer, origin, offset, size, extent) ==
  Min(Max(pointer - origin - offset, 0), size - extent)

\* Math.min(Math.max(pointer - origin - offset, 0), Math.max(size - extent, 0))
ClampAxis(pointer, origin, offset, size, extent) ==
  Min(Max(pointer - origin - offset, 0), Max(size - extent, 0))

\* the first element with the id (Array.prototype.find)
Find(list, id) ==
  list[CHOOSE i \in 1..Len(list) :
         list[i].id = id /\ \A j \in 1..(i - 1) : list[j].id # id]

\* the setPlacedImages updater of the image drag effect's onPointerMove
ImagePointerMove(prev, dragId, ev, rect, offset) ==
  IF ~(\E i \in 1..Len(prev) : prev[i].id = dragId) THEN prev
  ELSE LET active == Find(prev, dragId)
           imageHeight == RoundThreeQuarters(active.width)
           nextX == ClampAxis(ev.clientX, rect.left, offset.x, rect.width, active.width)
           nextY == ClampAxis(ev.clientY, rect.top, offset.y, rect.height, imageHeight)
           Move(image) == IF image.id = dragId
                          THEN [image EXCEPT !.x = nextX, !.y = nextY] ELSE image
       IN MapSeq(prev, Move)

\* the setStickyNotes updater of the note drag effect's onPointerMove
NotePointerMove(prev, dragId, ev, rect, offset) ==
  IF ~(\E i \in 1..Len(prev) : prev[i].id = dragId) THEN prev
  ELSE LET active == Find(prev, dragId)
           noteHeight == NoteHeight
           nextX == ClampAxis(ev.clientX, rect.left, offset.x, rect.width, active.width)
           nextY == ClampAxis(ev.clientY, rect.top, offset.y, rect.height, noteHeight)
           Move(note) == IF note.id = dragId
                         THEN [note EXCEPT !.x = nextX, !.y = nextY] ELSE note
       IN MapSeq(prev, Move)

\* a pointermove event of the window: every registered listener runs
PointerMove(ev, rect) ==
  /\ draggingImageId # Null \/ draggingNoteId # Null
  /\ placedImages' =
       IF draggingImageId # Null
       THEN ImagePointerMove(placedImages, draggingImageId, ev, rect, dragOffsetRef)
       ELSE placedImages
  /\ stickyNotes' =
       IF draggingNoteId # Null
       THEN NotePointerMove(stickyNotes, draggingNoteId, ev, rect, noteDragOffsetRef)
       ELSE stickyNotes
  /\ lastOp' = "pointerMove"
  /\ UNCHANGED << now, route, profileVars, storeVars, title, content, mood, viewVars, dragVars,
                  modalVars, scanVars >>

\* a pointermove event of the window while neither drag effect has its
\* listeners registered: no handler runs
PointerMoveUnheard ==
  /\ draggingImageId = Null
  /\ draggingNoteId = Null
  /\ lastOp' = "pointerMove:unheard"
  /\ UNCHANGED << now, route, profileVars, storeVars, composerVars, viewVars, dragVars,
                  modalVars, scanVars >>

\* a pointerup that only the listener of the image drag hears
PointerUpImageOnly ==
  /\ draggingImageId # Null \/ draggingNoteId # Null
  /\ draggingImageId' = Null
  /\ draggingNoteId' = draggingNoteId
  /\ lastOp' = "pointerUp"
  /\ UNCHANGED << now, route, profileVars, storeVars, composerVars, viewVars, dragOffsetRef,
                  noteDragOffsetRef, modalVars, scanVars >>

\* a pointerup event of the window: every registered listener runs
PointerUp ==
  /\ draggingImageId # Null \/ draggingNoteId # Null
  /\ draggingImageId' = Null
  /\ draggingNoteId' = Null
  /\ lastOp' = "pointerUp"
  /\ UNCHANGED << now, route, profileVars, storeVars, composerVars, viewVars, dragOffsetRef,
                  noteDragOffsetRef, modalVars, scanVars >>

\* ----------------------------------------------------------- scan template
TitleLimit == 64

\* length of the run of blank characters s starts with
RECURSIVE BlankRun(_)
BlankRun(s) == IF s = << >> \/ ~IsSpace(Head(s)) THEN 0 ELSE 1 + BlankRun(Tail(s))

\* length of the run of newlines s starts with
RECURSIVE NewlineRun(_)
NewlineRun(s) == IF s = << >> \/ Head(s) # "\n" THEN 0 ELSE 1 + NewlineRun(Tail(s))

\* .replace(/\s+\n/g, "\n"): leftmost match, \s+ greedy, so a match runs from
\* a blank character to the last newline of the run of blanks it starts
RECURSIVE ReplaceBlanksBeforeNewline(_)
ReplaceBlanksBeforeNewline(s) ==
  IF s = << >> THEN << >>
  ELSE IF ~IsSpace(Head(s)) THEN << Head(s) >> \o ReplaceBlanksBeforeNewline(Tail(s))
  ELSE LET run == BlankRun(s)
           ends == { k \in 2..run : s[k] = "\n" }
       IN IF ends = {} THEN << Head(s) >> \o ReplaceBlanksBeforeNewline(Tail(s))
          ELSE LET last == CHOOSE k \in ends : \A j \in ends : j <= k
               IN << "\n" >> \o ReplaceBlanksBeforeNewline(SubSeq(s, last + 1, Len(s)))

\* .replace(/\n{3,}/g, "\n\n")
RECURSIVE ReplaceTripleNewlines(_)
ReplaceTripleNewlines(s) ==
  IF s = << >> THEN << >>
  ELSE IF Head(s) # "\n" THEN << Head(s) >> \o ReplaceTripleNewlines(Tail(s))
  ELSE LET run == NewlineRun(s)
       IN (IF run >= 3 THEN << "\n", "\n" >> ELSE SubSeq(s, 1, run))
          \o ReplaceTripleNewlines(SubSeq(s, run + 1, Len(s)))

\* .split("\n")
RECURSIVE SplitLines(_)
SplitLines(s) ==
  IF \E i \in 1..Len(s) : s[i] = "\n"
  THEN LET i == CHOOSE k \in 1..Len(s) : s[k] = "\n" /\ \A j \in 1..(k - 1) : s[j] # "\n"
       IN << SubSeq(s, 1, i - 1) >> \o SplitLines(SubSeq(s, i + 1, Len(s)))
  ELSE << s >>

\* .join(sep)
RECURSIVE Join(_, _)
Join(list, sep) ==
  IF list = << >> THEN << >>
  ELSE IF Len(list) = 1 THEN list[1]
  ELSE list[1] \o sep \o Join(Tail(list), sep)

NonEmpty(line) == Len(line) > 0

\* .slice(0, n)
Slice(list, n) == SubSeq(list, 1, Min(n, Len(list)))

ScannedMemory == << "S", "c", "a", "n", "n", "e", "d", " ", "M", "e", "m", "o", "r", "y" >>

\* the title without the trim() of the slice
getScannedTitleUntrimmed(text) ==
  LET trimmed == SelectSeq(MapSeq(SplitLines(text), Trim), NonEmpty)
      firstLine == IF trimmed = << >> THEN << >> ELSE trimmed[1]
  IN IF firstLine = << >> THEN ScannedMemory
     ELSE IF Len(firstLine) > TitleLimit
          THEN Slice(firstLine, TitleLimit) \o << ".", ".", "." >>
          ELSE firstLine

getScannedTitle(text) ==
  LET trimmed == SelectSeq(MapSeq(SplitLines(text), Trim), NonEmpty)
      firstLine == IF trimmed = << >> THEN << >> ELSE trimmed[1]
  IN IF firstLine = << >> THEN ScannedMemory
     ELSE IF Len(firstLine) > TitleLimit
          THEN Trim(Slice(firstLine, TitleLimit)) \o << ".", ".", "." >>
          ELSE firstLine

cleanText(rawText) == Trim(ReplaceTripleNewlines(ReplaceBlanksBeforeNewline(rawText)))

Bullet(line) == << "-", " " >> \o line

buildScannedTemplate(rawText) ==
  LET cleanedText == cleanText(rawText)
      lines == SelectSeq(MapSeq(SplitLines(cleanedText), Trim), NonEmpty)
      summary == Join(Slice(lines, 2), << " " >>)
      highlights == Slice(lines, 5)
  IN [title |-> getScannedTitle(cleanedText),
      content |-> Join(
        << << "S", "C", "A", "N", "N", "E", "D", " ", "J", "O", "U", "R", "N", "A", "L" >>,
           << >>,
           << "S", "u", "m", "m", "a", "r", "y", ":" >>,
           OrElse(summary, << "N", "o", " ", "c", "l", "e", "a", "r", " ", "s", "u", "m", "m", "a", "r", "y", " ", "d", "e", "t", "e", "c", "t", "e", "d", " ", "f", "r", "o", "m", " ", "t", "h", "e", " ", "i", "m", "a", "g", "e", "." >>),
           << >>,
           << "H", "i", "g", "h", "l", "i", "g", "h", "t", "s", ":" >> >>
        \o (IF Len(highlights) > 0 THEN MapSeq(highlights, Bullet)
            ELSE << << "-", " ", "N", "o", " ", "h", "i", "g", "h", "l", "i", "g", "h", "t", "s", " ", "d", "e", "t", "e", "c", "t", "e", "d", "." >> >>)
        \o << << >>,
              << "E", "x", "t", "r", "a", "c", "t", "e", "d", " ", "T", "e", "x", "t", ":" >>,
              OrElse(cleanedText, << "N", "o", " ", "r", "e", "a", "d", "a", "b", "l", "e", " ", "t", "e", "x", "t", " ", "f", "o", "u", "n", "d", " ", "i", "n", " ", "t", "h", "i", "s", " ", "i", "m", "a", "g", "e", "." >>) >>,
        << "\n" >>)]

\* the scanned entry with its two badges exchanged
ScannedEntryJournalFirst(rawText, imageSrc) ==
  LET template == buildScannedTemplate(rawText)
  IN [id |-> now,
      title |-> template.title,
      content |-> template.content,
      dateLabel |-> formatDateLabel(now),
      images |-> IF imageSrc # << >> THEN Some(<< [src |-> imageSrc] >>) ELSE Undefined,
      notes |-> Absent,
      badges |-> << JournalBadge, ScannedBadge >>,
      sticker |-> Some(AutoSticker)]

\* the entry createScannedEntry builds
ScannedEntry(rawText, imageSrc) ==
  LET template == buildScannedTemplate(rawText)
  IN [id |-> now,
      title |-> template.title,
      content |-> template.content,
      dateLabel |-> formatDateLabel(now),
      images |-> IF imageSrc # << >> THEN Some(<< [src |-> imageSrc] >>) ELSE Undefined,
      notes |-> Absent,
      badges |-> << ScannedBadge, JournalBadge >>,
      sticker |-> Some(AutoSticker)]

\* ------------------------------------------------------------- browse view
\* parseDateLabel: null (here NullKey) when the label is not a date
parseDateLabel(dateLabel) ==
  IF Len(dateLabel) = 2 /\ dateLabel[1] = "day" THEN << dateLabel[2] >> ELSE NullKey

\* toDateKey: the year-month-day key of a parsed date
toDateKey(date) == << "key", date[1] >>

\* the date test letting an entry whose label does not parse through
MatchesDateLenient(entry) ==
  IF selectedDateKey # NullKey
  THEN \/ parseDateLabel(entry.dateLabel) = NullKey
       \/ toDateKey(parseDateLabel(entry.dateLabel)) = selectedDateKey
  ELSE TRUE

MatchesDate(entry) ==
  IF selectedDateKey # NullKey
  THEN /\ parseDateLabel(entry.dateLabel) # NullKey
       /\ toDateKey(parseDateLabel(entry.dateLabel)) = selectedDateKey
  ELSE TRUE

\* the text test without toLowerCase on the fields of the entry
MatchesQueryCaseSensitive(entry) ==
  LET normalized == toLowerCase(Trim(query))
  IN \/ normalized = << >>
     \/ Includes(entry.title, normalized)
     \/ Includes(entry.content, normalized)
     \/ \E i \in 1..Len(entry.badges) : Includes(entry.badges[i].label, normalized)

MatchesQuery(entry) ==
  LET normalized == toLowerCase(Trim(query))
  IN \/ normalized = << >>
     \/ Includes(toLowerCase(entry.title), normalized)
     \/ Includes(toLowerCase(entry.content), normalized)
     \/ \E i \in 1..Len(entry.badges) :
          Includes(toLowerCase(entry.badges[i].label), normalized)

Passes(entry) == MatchesDate(entry) /\ MatchesQuery(entry)

filteredEntries == SelectSeq(entries, Passes)

\* whether the callback of entries.filter raises a TypeError: toLowerCase is
\* called on the title of an entry that passed the date test, then on its
\* content when the title did not match, and neither may be a non-string
FilterRaises ==
  LET normalized == toLowerCase(Trim(query))
      Raises(entry) ==
        /\ MatchesDate(entry)
        /\ normalized # << >>
        /\ \/ ~IsText(entry.title)
           \/ /\ ~Includes(toLowerCase(entry.title), normalized)
              /\ ~IsText(entry.content)
  IN \E i \in 1..Len(entries) : Raises(entries[i])

\* entryDates: the number of entries per day key, over the labels that parse
entryDates ==
  LET dated == { i \in 1..Len(entries) : parseDateLabel(entries[i].dateLabel) # NullKey }
      KeyOf(i) == toDateKey(parseDateLabel(entries[i].dateLabel))
  IN [key \in { KeyOf(i) : i \in dated } |->
        Cardinality({ i \in dated : KeyOf(i) = key })]

DateInputs == { toDateKey(<< -1 >>), toDateKey(<< 0 >>) }

\* click on a calendar day: prev === cell.dateKey ? null : cell.dateKey
ToggleDate(key) ==
  /\ selectedDateKey' = IF selectedDateKey = key THEN NullKey ELSE key
  /\ lastOp' = "toggleDate"
  /\ UNCHANGED << now, route, profileVars, storeVars, composerVars, query, dragVars, modalVars, scanVars >>

\* ------------------------------------------------------------- entry modal
openEntryModal(entry) ==
  /\ openEntry.st = "absent"
  /\ openEntry' = Some(entry)
  /\ isEditingEntry' = FALSE
  /\ editingTitle' = entry.title
  /\ editingContent' = entry.content
  /\ lastOp' = "openEntryModal"
  /\ UNCHANGED << now, route, profileVars, storeVars, composerVars, viewVars, dragVars, scanVars >>

closeOpenEntryModal ==
  /\ openEntry.st = "some"
  /\ openEntry' = Absent
  /\ isEditingEntry' = FALSE
  /\ lastOp' = "closeOpenEntryModal"
  /\ UNCHANGED << now, route, profileVars, storeVars, composerVars, viewVars, dragVars, scanVars,
                  editingTitle, editingContent >>

\* the Edit button
StartEditing ==
  /\ openEntry.st = "some"
  /\ ~isEditingEntry
  /\ isEditingEntry' = TRUE
  /\ lastOp' = "startEditing"
  /\ UNCHANGED << now, route, profileVars, storeVars, composerVars, viewVars, dragVars, scanVars,
                  openEntry, editingTitle, editingContent >>

\* the two inputs of the modal in edit mode
SetEditing(t, c) ==
  /\ openEntry.st = "some"
  /\ isEditingEntry
  /\ editingTitle' = t
  /\ editingContent' = c
  /\ lastOp' = "setEditing"
  /\ UNCHANGED << now, route, profileVars, storeVars, composerVars, viewVars, dragVars, scanVars,
                  openEntry, isEditingEntry >>

\* the Cancel button
CancelEditing ==
  /\ openEntry.st = "some"
  /\ isEditingEntry
  /\ editingTitle' = openEntry.v.title
  /\ editingContent' = openEntry.v.content
  /\ isEditingEntry' = FALSE
  /\ lastOp' = "cancelEditing"
  /\ UNCHANGED << now, route, profileVars, storeVars, composerVars, viewVars, dragVars, scanVars,
                  openEntry >>

\* the updater without the entry.id === openEntry.id test
SavedEntriesEverywhere(prev, id, nextTitle, nextContent) ==
  LET Upd(entry) == [entry EXCEPT !.title = nextTitle, !.content = nextContent]
  IN MapSeq(prev, Upd)

\* the setEntries updater of saveOpenEntryEdits
SavedEntries(prev, id, nextTitle, nextContent) ==
  LET Upd(entry) == IF entry.id = id
                    THEN [entry EXCEPT !.title = nextTitle, !.content = nextContent]
                    ELSE entry
  IN MapSeq(prev, Upd)

saveOpenEntryEdits(writeOk) ==
  /\ openEntry.st = "some"
  /\ isEditingEntry
  /\ LET nextTitle == OrElse(Trim(editingTitle), UntitledMemory)
         nextContent == OrElse(Trim(editingContent), NoNotesAdded)
     IN /\ entries' = SavedEntries(entries, openEntry.v.id, nextTitle, nextContent)
        /\ openEntry' = Some([openEntry.v EXCEPT !.title = nextTitle,
                                                 !.content = nextContent])
  /\ storage' = Persist(entries', writeOk)
  /\ isEditingEntry' = FALSE
  /\ lastOp' = "saveOpenEntryEdits"
  /\ UNCHANGED << now, route, profileVars, composerVars, viewVars, dragVars, scanVars, editingTitle,
                  editingContent >>

\* ----------------------------------------------------------- scan pipeline
PngFile == [type |-> "image/png", empty |-> FALSE]
EmptyPngFile == [type |-> "image/png", empty |-> TRUE]
TextFile == [type |-> "text/plain", empty |-> FALSE]

\* file.type.startsWith("image/")
IsImageFile(file) == file.type \in { "image/png" }

\* reader.result of readAsDataURL; browsers differ on an empty file
ReadResults(file) ==
  IF file.empty THEN { << "data:" >>, << "data:", file.type, ";base64,", "" >> }
  ELSE { DataURI(file.type) }

\* a test of the data: prefix alone
MatchesDataPrefix(src) == Len(src) >= 1 /\ src[1] = "data:"

\* imageSrc.match(/^data:(.*?);base64,(.*)$/) on the parts of a data URI
MatchesDataURI(src) ==
  /\ Len(src) >= 2
  /\ src[1] = "data:"
  /\ \E i \in 2..Len(src) : src[i] = ";base64,"

FileLists ==
  { << >>, << PngFile >>, << TextFile >>, << PngFile, PngFile >>,
    << TextFile, PngFile >>, << EmptyPngFile >> }

scanFiles(files) ==
  IF Len(files) = 0
  THEN /\ lastOp' = "scanFiles:empty"
       /\ UNCHANGED << now, route, profileVars, storeVars, composerVars, viewVars, dragVars, modalVars,
                       scanVars >>
  ELSE /\ scansStarted + Len(files) <= MaxScans
       /\ scanDialogOpen' = TRUE
       /\ scanBusy' = TRUE
       /\ scanStatus' = "Preparing image..."
       /\ readers' = readers \o SelectSeq(files, IsImageFile)
       /\ scansStarted' = scansStarted + Len(files)
       /\ lastOp' = "scanFiles"
       /\ UNCHANGED << now, route, profileVars, storeVars, composerVars, viewVars, dragVars, modalVars,
                       requests, timers >>

RemoveAt(list, i) == SubSeq(list, 1, i - 1) \o SubSeq(list, i + 1, Len(list))

\* reader.onload, and scanImageAndSave up to its first await
ReaderLoad(i, src) ==
  /\ i \in 1..Len(readers)
  /\ src \in ReadResults(readers[i])
  /\ readers' = RemoveAt(readers, i)
  /\ scanDialogOpen' = TRUE
  /\ IF ~MatchesDataURI(src)
     THEN /\ scanBusy' = FALSE
          /\ scanStatus' = "Only local uploaded images can be scanned."
          /\ requests' = requests
          /\ lastOp' = "scanImageAndSave:notLocal"
     ELSE /\ scanBusy' = TRUE
          /\ scanStatus' = "Scanning image..."
          /\ requests' = Append(requests, src)
          /\ lastOp' = "scanImageAndSave:fetch"
  /\ UNCHANGED << now, route, profileVars, storeVars, composerVars, viewVars, dragVars, modalVars,
                  scansStarted, timers >>

\* What the fetch of /api/ocr may produce.
OcrText == { Absent, Some(<< >>), Some(<< "h", "i", "\n", "\n", "y", "o" >>) }
\* The body of a failing answer: whether response.json() parses it, and the
\* error property of the parsed value when it has one.
OcrFailures ==
  { [json |-> FALSE, hasError |-> FALSE, error |-> "", body |-> "<html>Bad Gateway</html>"],
    [json |-> TRUE, hasError |-> FALSE, error |-> "", body |-> "{}"],
    [json |-> TRUE, hasError |-> TRUE, error |-> "",
     body |-> "{\"error\":\"\"}"],
    [json |-> TRUE, hasError |-> TRUE, error |-> "Gemini OCR request failed.",
     body |-> "{\"error\":\"Gemini OCR request failed.\"}"] }

\* a 200 answer whose body parses, with the text property t
OcrSuccess(t) ==
  [kind |-> "response", ok |-> TRUE, json |-> TRUE, hasError |-> FALSE,
   error |-> "", body |-> "{}", text |-> t]

OcrResponses ==
  { [kind |-> "reject", ok |-> FALSE, json |-> FALSE, hasError |-> FALSE,
     error |-> "", body |-> "", text |-> Absent] }
  \cup { OcrSuccess(t) : t \in OcrText }
  \cup { [kind |-> "response", ok |-> TRUE, json |-> FALSE, hasError |-> FALSE,
          error |-> "", body |-> "<html></html>", text |-> Absent] }
  \cup { [kind |-> "response", ok |-> FALSE, json |-> f.json, hasError |-> f.hasError,
          error |-> f.error, body |-> f.body, text |-> Absent] : f \in OcrFailures }

\* scanImageAndSave after the fetch settles
OcrResponse(i, resp, writeOk) ==
  /\ i \in 1..Len(requests)
  /\ requests' = RemoveAt(requests, i)
  /\ scanBusy' = FALSE
  /\ IF resp.kind = "response" /\ resp.ok /\ resp.json
     THEN /\ Len(entries) < MaxEntries
          /\ entries' = Prepend(
               ScannedEntry(IF resp.text.st = "some" THEN resp.text.v ELSE << >>,
                            requests[i]),
               entries)
          /\ storage' = Persist(entries', writeOk)
          /\ query' = << >>
          /\ scanStatus' = "Scanned and saved."
          /\ timers' = timers + 1
          /\ lastOp' = "scanImageAndSave:saved"
     ELSE /\ scanStatus' =
               IF resp.kind = "response" /\ ~resp.ok
               THEN (IF resp.json /\ resp.hasError THEN resp.error
                     ELSE "Gemini OCR failed.")
               ELSE "Could not scan this image."
          /\ lastOp' = "scanImageAndSave:failed"
          /\ UNCHANGED << storeVars, query, timers >>
  /\ UNCHANGED << now, route, profileVars, composerVars, selectedDateKey, dragVars, modalVars,
                  scanDialogOpen, readers, scansStarted >>

\* the window.setTimeout callback of a saved scan
ScanTimer ==
  /\ timers > 0
  /\ timers' = timers - 1
  /\ scanDialogOpen' = FALSE
  /\ scanStatus' = ""
  /\ lastOp' = "scanTimer"
  /\ UNCHANGED << now, route, profileVars, storeVars, composerVars, viewVars, dragVars, modalVars,
                  scanBusy, readers, requests, scansStarted >>

\* the close button of the scan status dialog, rendered when !scanBusy
CloseScanDialog ==
  /\ scanDialogOpen
  /\ ~scanBusy
  /\ scanDialogOpen' = FALSE
  /\ lastOp' = "closeScanDialog"
  /\ UNCHANGED << now, route, profileVars, storeVars, composerVars, viewVars, dragVars, modalVars,
                  scanStatus, scanBusy, readers, requests, scansStarted, timers >>

\* ------------------------------------------------------- OCR route handler
\* extractText
extractText(payload) ==
  LET parts == IF payload.candidates = << >> THEN << >> ELSE payload.candidates[1]
      texts == [i \in 1..Len(parts) |->
                  IF parts[i].st = "some" THEN parts[i].v ELSE << >>]
  IN Trim(Join(texts, << "\n" >>))

EnvKeys == { Absent, Some(<< >>), Some(<< "k" >>) }
FieldInputs == { Absent, Some(<< >>), Some(<< "x" >>) }
RequestBodies ==
  { RequestBody(FALSE, FALSE, Absent, Absent), NoBody }
  \cup { RequestBody(TRUE, FALSE, mt, b64) : mt \in FieldInputs, b64 \in FieldInputs }
ErrorBodies ==
  { ErrorBody(<< "{", "m", "}" >>, TRUE, FALSE, TRUE, << "m" >>),
    ErrorBody(<< "{", "}" >>, TRUE, FALSE, FALSE, << >>),
    ErrorBody(<< "n", "u", "l", "l" >>, TRUE, TRUE, FALSE, << >>),
    ErrorBody(<< "<", ">" >>, FALSE, FALSE, FALSE, << >>) }
Payloads ==
  { Payload(FALSE, FALSE, << >>),
    Payload(TRUE, TRUE, << >>),
    Payload(TRUE, FALSE, << >>),
    Payload(TRUE, FALSE, << << Some(<< " ", "a" >>), Absent, Some(<< "b", " " >>) >> >>) }
ProviderAnswers ==
  { Rejected } \cup { NotOk(b) : b \in ErrorBodies } \cup { Ok(p) : p \in Payloads }

\* the route hands back a response
Respond(r, response) == [r EXCEPT !.pc = "done", !.response = response]

\* the head of the loop: the fetch for the next model goes out
Attempt(r) ==
  [r EXCEPT !.calls = @ \o << callGemini(r.apiKey.v, models[r.next],
                                        r.body.mimeType.v, r.body.base64.v) >>]

\* POST, up to its first await of the provider
POST(apiKey, body) ==
  /\ route.pc # "calling"
  /\ LET r == [RouteIdle EXCEPT !.apiKey = apiKey, !.body = body]
     IN route' =
          IF Falsy(apiKey) THEN Respond(r, MissingKeyResponse)
          ELSE IF ~body.parses THEN Respond(r, RaisedResponse)
          ELSE IF BodyIncomplete(body) THEN Respond(r, BadRequestResponse)
          ELSE Attempt([r EXCEPT !.pc = "calling"])
  /\ lastOp' = "POST"
  /\ UNCHANGED << now, profileVars, storeVars, composerVars, viewVars, dragVars,
                  modalVars, scanVars >>

\* POST, from the answer of the model being tried to the next await or the
\* response
ProviderAnswer(ans) ==
  /\ route.pc = "calling"
  /\ LET r == [route EXCEPT !.answers = @ \o << ans >>]
     IN route' =
          IF AnswerRaises(ans) THEN Respond(r, RaisedResponse)
          ELSE IF ~ans.ok
          THEN LET failed == [r EXCEPT !.lastError = Some(ParsedOrRaw(ans.body))]
               IN IF r.next < Len(models)
                  THEN Attempt([failed EXCEPT !.next = @ + 1])
                  ELSE Respond(failed, FailedResponse(failed.lastError))
          ELSE Respond(r, TextResponse(extractText(ans.payload)))
  /\ lastOp' = "ProviderAnswer"
  /\ UNCHANGED << now, profileVars, storeVars, composerVars, viewVars, dragVars,
                  modalVars, scanVars >>

\* ----------------------------------------------------------- specification
ImageSources == { DataURI("image/png") }

ComposerStep ==
  \/ \E t \in TitleInputs : SetTitle(t)
  \/ \E c \in ContentInputs : SetContent(c)
  \/ \E i \in 1..Len(moodStickers) : SelectMood(i)
  \/ \E writeOk \in WriteOutcomes : handleSubmit(writeOk)

CanvasStep ==
  \/ \E src \in ImageSources : PlaceImage(src)
  \/ \E i \in 1..Len(placedImages) : RemoveImage(placedImages[i].id)
  \/ addStickyNote
  \/ \E i \in 1..Len(stickyNotes), text \in NoteTextInputs :
       updateStickyNoteText(stickyNotes[i].id, text)
  \/ \E i \in 1..Len(stickyNotes) : RemoveNote(stickyNotes[i].id)

DragStepWith(offsets, pointers, rects) ==
  \/ \E i \in 1..Len(placedImages), ox \in offsets, oy \in offsets :
       startImageDrag([x |-> ox, y |-> oy], placedImages[i].id)
  \/ \E i \in 1..Len(stickyNotes), ox \in offsets, oy \in offsets :
       startNoteDrag([x |-> ox, y |-> oy], stickyNotes[i].id)
  \/ \E px \in pointers, py \in pointers, rect \in rects :
       PointerMove([clientX |-> px, clientY |-> py], rect)
  \/ PointerUp

DragStep == DragStepWith(OffsetInputs, PointerInputs, RectInputs)

ViewStep ==
  \/ \E q \in QueryInputs : SetQuery(q)
  \/ \E key \in DateInputs : ToggleDate(key)

ModalStep ==
  \/ \E i \in 1..Len(filteredEntries) : openEntryModal(filteredEntries[i])
  \/ closeOpenEntryModal
  \/ StartEditing
  \/ \E t \in TitleInputs, c \in ContentInputs : SetEditing(t, c)
  \/ CancelEditing
  \/ \E writeOk \in WriteOutcomes : saveOpenEntryEdits(writeOk)

ScanStep ==
  \/ \E files \in FileLists : scanFiles(files)
  \/ \E i \in 1..Len(readers) : \E src \in ReadResults(readers[i]) : ReaderLoad(i, src)
  \/ \E i \in 1..Len(requests), resp \in OcrResponses, writeOk \in WriteOutcomes :
       OcrResponse(i, resp, writeOk)
  \/ ScanTimer
  \/ CloseScanDialog

OnboardingStep ==
  \/ \E n \in NameInputs : SetNameInput(n)
  \/ \E g \in GenderInputs : SetGenderInput(g)
  \/ \E writeOk \in ProfileWriteOutcomes : saveProfile(writeOk)

RouteStep ==
  \/ \E apiKey \in EnvKeys, body \in RequestBodies : POST(apiKey, body)
  \/ \E ans \in ProviderAnswers : ProviderAnswer(ans)

Next ==
  \/ Tick
  \/ OnboardingStep
  \/ RouteStep
  \/ ComposerStep
  \/ CanvasStep
  \/ DragStep
  \/ ViewStep
  \/ ModalStep
  \/ ScanStep

Spec == Init /\ [][Next]_vars

\* ------------------------------------------------- entry store in isolation
\* The operations that write the entry list, with the composer and the scan
\* pipeline reduced to what feeds them.
StoreInitialStorage ==
  { raw \in InitialStorage : raw.kind = "missing" \/ Len(raw.items) > 1 }
StoreTitles == { << >>, << " ", "a", " " >> }
StoreOcrResponses ==
  { r \in OcrResponses :
      \/ r.kind = "reject"
      \/ r.kind = "response" /\ r.ok /\ r.json /\ r.text.st = "some" /\ r.text.v # << >> }

InitStore == InitFrom(StoreInitialStorage, {TRUE})

NextStore ==
  \/ Tick
  \/ \E t \in StoreTitles : SetTitle(t)
  \/ \E writeOk \in AlwaysWritable : handleSubmit(writeOk)
  \/ scanFiles(<< PngFile >>)
  \/ \E i \in 1..Len(readers) : \E src \in ReadResults(readers[i]) : ReaderLoad(i, src)
  \/ \E i \in 1..Len(requests), resp \in StoreOcrResponses, writeOk \in AlwaysWritable :
       OcrResponse(i, resp, writeOk)

SpecStore == InitStore /\ [][NextStore]_vars

\* ------------------------------------------------ entry modal in isolation
\* The modal over a list made of a stored entry and the entries submitted
\* in this session.
ModalInitialStorage ==
  { raw \in InitialStorage : raw.kind = "array" /\ Len(raw.items) = 1 }
ModalTitles == { << " ", "a", " " >> }
ModalEdits == { << >>, << " ", "c" >> }

InitModal == InitFrom(ModalInitialStorage, {TRUE})

NextModal ==
  \/ Tick
  \/ \E t \in ModalTitles : SetTitle(t)
  \/ \E writeOk \in AlwaysWritable : handleSubmit(writeOk)
  \/ \E i \in 1..Len(filteredEntries) : openEntryModal(filteredEntries[i])
  \/ StartEditing
  \/ \E t \in ModalEdits : SetEditing(t, << >>)
  \/ CancelEditing
  \/ \E writeOk \in AlwaysWritable : saveOpenEntryEdits(writeOk)
  \/ closeOpenEntryModal

SpecModal == InitModal /\ [][NextModal]_vars

\* ---------------------------------------------------- composer in isolation
ComposerInitialStorage == { raw \in InitialStorage : raw.kind = "missing" }
ComposerTitles == { << >>, << " ", "a", " " >> }
ComposerContents == { << >>, << "\n" >>, << "b", " " >> }
ComposerNoteTexts == { << " " >> }

InitComposer == InitFrom(ComposerInitialStorage, {TRUE})

\* the texts of the draft, the query and the notes
NextComposer ==
  \/ \E t \in ComposerTitles : SetTitle(t)
  \/ \E c \in ComposerContents : SetContent(c)
  \/ \E q \in QueryInputs : SetQuery(q)
  \/ addStickyNote
  \/ \E i \in 1..Len(stickyNotes), text \in ComposerNoteTexts :
       updateStickyNoteText(stickyNotes[i].id, text)
  \/ \E i \in 1..Len(stickyNotes) : RemoveNote(stickyNotes[i].id)
  \/ /\ Len(entries) < ComposerEntryCap
     /\ \E writeOk \in AlwaysWritable : handleSubmit(writeOk)

SpecComposer == InitComposer /\ [][NextComposer]_vars

\* the canvas of the draft under a title
NextDraft ==
  \/ \E t \in ComposerTitles : SetTitle(t)
  \/ \E src \in ImageSources : PlaceImage(src)
  \/ \E i \in 1..Len(placedImages) : RemoveImage(placedImages[i].id)
  \/ addStickyNote
  \/ \E i \in 1..Len(stickyNotes), text \in ComposerNoteTexts :
       updateStickyNoteText(stickyNotes[i].id, text)
  \/ \E i \in 1..Len(stickyNotes) : RemoveNote(stickyNotes[i].id)
  \/ /\ Len(entries) < ComposerEntryCap
     /\ \E writeOk \in AlwaysWritable : handleSubmit(writeOk)

SpecDraft == InitComposer /\ [][NextDraft]_vars

\* -------------------------------------------------- first render in isolation
\* Every stored value the two read paths may meet at the first render,
\* followed by the onboarding.
SpecMount == Init /\ [][OnboardingStep]_vars

\* ---------------------------------------------------- storage in isolation
\* The handlers that write, with setItem free to throw, for a first-time
\* user and for a returning user.
StorageInitialStorage ==
  { raw \in InitialStorage :
      raw.kind = "missing" \/ (raw.kind = "array" /\ Len(raw.items) = 1) }
StorageProfiles == { ProfileUnreadable("missing"), ReturningUser }
StorageTitles == { << " ", "a", " " >> }
StorageEdits == { << "c" >> }
StorageNames == { << " ", "B", "o" >> }
StorageGenders == { "male" }

NextStorage ==
  \/ \E n \in StorageNames : SetNameInput(n)
  \/ \E g \in StorageGenders : SetGenderInput(g)
  \/ \E writeOk \in ProfileWriteOutcomes : saveProfile(writeOk)
  \/ \E t \in StorageTitles : SetTitle(t)
  \/ \E writeOk \in WriteOutcomes : handleSubmit(writeOk)
  \/ \E i \in 1..Len(filteredEntries) : openEntryModal(filteredEntries[i])
  \/ StartEditing
  \/ \E t \in StorageEdits : SetEditing(t, << >>)
  \/ \E writeOk \in WriteOutcomes : saveOpenEntryEdits(writeOk)
  \/ closeOpenEntryModal

InitStorage ==
  InitReads(StorageInitialStorage, StorageProfiles, BOOLEAN) /\ InitCanvas

SpecStorage == InitStorage /\ [][NextStorage]_vars

\* ------------------------------------------------- browse view in isolation
\* The filters over a stored list that holds an entry whose label is not a
\* date, next to the entries submitted in this session.
UndatedEntry ==
  [StoredEntry(-2, << "A", "b" >>, << JournalBadge >>)
     EXCEPT !.dateLabel = << "s", "o", "m", "e", "d", "a", "y" >>]
BrowseInitialStorage ==
  { [kind |-> "array", items |-> << StoredObject("number", TRUE, UndatedEntry) >>],
    [kind |-> "array", items |->
       << StoredObject("number", TRUE, UndatedEntry),
          StoredObject("number", TRUE, StoredEntry(-1, << "b" >>, << >>)) >>] }
BrowseTitles == { << " ", "a", " " >> }
BrowseQueries ==
  { << >>, << " " >>, << "A" >>, << " ", "j", "O", "u", "r" >>, << "z" >> }

InitBrowse == InitFrom(BrowseInitialStorage, {TRUE})

NextBrowse ==
  \/ Tick
  \/ \E t \in BrowseTitles : SetTitle(t)
  \/ \E writeOk \in AlwaysWritable : handleSubmit(writeOk)
  \/ \E q \in BrowseQueries : SetQuery(q)
  \/ \E key \in DateInputs : ToggleDate(key)

SpecBrowse == InitBrowse /\ [][NextBrowse]_vars

\* The filters over stored lists whose records have a numeric id but lack a
\* title or a content.
AdmitInitialStorage ==
  { [kind |-> "array", items |->
       << StoredObject("number", TRUE, StoredEntry(-1, NotText, << JournalBadge >>)) >>],
    [kind |-> "array", items |->
       << StoredObject("number", FALSE,
                       [StoredEntry(-1, << "b" >>, << >>) EXCEPT !.content = NotText]) >>],
    [kind |-> "array", items |->
       << StoredObject("number", TRUE, StoredEntry(-1, << "b" >>, << >>)) >>] }

InitAdmit == InitFrom(AdmitInitialStorage, {TRUE})

SpecAdmit == InitAdmit /\ [][NextBrowse]_vars

\* ------------------------------------------------------ canvas in isolation
CanvasOffsets == { 10 }
CanvasPointers == { -50, 300 }
CanvasRects == { rect \in RectInputs : rect.width = 600 }

NextCanvas ==
  \/ Tick
  \/ \E src \in ImageSources : PlaceImage(src)
  \/ \E i \in 1..Len(placedImages) : RemoveImage(placedImages[i].id)
  \/ addStickyNote
  \/ \E i \in 1..Len(stickyNotes) : RemoveNote(stickyNotes[i].id)
  \/ DragStepWith(CanvasOffsets, CanvasPointers, CanvasRects)

SpecCanvas == InitComposer /\ [][NextCanvas]_vars

\* sticky notes added, edited and removed under a title, never dragged
NextCascade ==
  \/ Tick
  \/ \E t \in ComposerTitles : SetTitle(t)
  \/ addStickyNote
  \/ \E i \in 1..Len(stickyNotes), text \in NoteTextInputs :
       updateStickyNoteText(stickyNotes[i].id, text)
  \/ \E i \in 1..Len(stickyNotes) : RemoveNote(stickyNotes[i].id)

SpecCascade == InitComposer /\ [][NextCascade]_vars

\* the canvas with the pointer events of the window at any time
NextDrag ==
  \/ \E src \in ImageSources : PlaceImage(src)
  \/ addStickyNote
  \/ DragStepWith(CanvasOffsets, CanvasPointers, CanvasRects)
  \/ PointerMoveUnheard

SpecDrag == InitComposer /\ [][NextDrag]_vars

\* ------------------------------------------- the drag clamp as a function
\* The pointer-move updaters applied to one dragged element of any width.
WidthInputs == { 180, 183 }

InitClamp ==
  /\ InitOutsideCanvas(ComposerInitialStorage, {TRUE})
  /\ \E w \in WidthInputs, ox \in OffsetInputs, oy \in OffsetInputs,
        image \in BOOLEAN :
       /\ placedImages =
            IF image
            THEN << [id |-> 0, src |-> DataURI("image/png"), x |-> DefaultImageX,
                     y |-> DefaultImageY, width |-> w] >>
            ELSE << >>
       /\ stickyNotes =
            IF image THEN << >>
            ELSE << [id |-> 0, text |-> NewStickyNoteText, x |-> NoteBaseX,
                     y |-> NoteBaseY, width |-> w] >>
       /\ draggingImageId = IF image THEN 0 ELSE Null
       /\ draggingNoteId = IF image THEN Null ELSE 0
       /\ dragOffsetRef = IF image THEN [x |-> ox, y |-> oy] ELSE [x |-> 0, y |-> 0]
       /\ noteDragOffsetRef = IF image THEN [x |-> 0, y |-> 0] ELSE [x |-> ox, y |-> oy]

NextClamp ==
  \E px \in PointerInputs, py \in PointerInputs, rect \in RectInputs :
    PointerMove([clientX |-> px, clientY |-> py], rect)

SpecClamp == InitClamp /\ [][NextClamp]_vars

\* -------------------------------------------------- scan pipeline, scheduled
\* Every started file read fires its onload and every fetch settles.
ReaderLoadStep ==
  \E i \in 1..Len(readers) : \E src \in ReadResults(readers[i]) : ReaderLoad(i, src)

OcrResponseStep ==
  \E i \in 1..Len(requests), resp \in OcrResponses, writeOk \in AlwaysWritable :
    OcrResponse(i, resp, writeOk)

NextScan ==
  \/ \E files \in FileLists : scanFiles(files)
  \/ ReaderLoadStep
  \/ OcrResponseStep
  \/ ScanTimer
  \/ CloseScanDialog

FairSpecScan ==
  /\ InitComposer
  /\ [][NextScan]_vars
  /\ WF_vars(ReaderLoadStep)
  /\ WF_vars(OcrResponseStep)
  /\ WF_vars(ScanTimer)

\* ------------------------------------------------ scans that all succeed
\* Image files whose reads and OCR calls succeed, over texts that exercise
\* the template: no text, blank text, blank lines, more than five lines, and
\* first lines around the title limit.
Repeat(c, n) == [k \in 1..n |-> c]

CommitTexts ==
  { Absent, Some(<< >>), Some(<< " ", "\n", "\t" >>),
    Some(<< "h", "i", "\n", "\n", "y", "o" >>),
    Some(<< "a", " ", "\n", "\n", "\n", "\n", "b" >>),
    Some(<< " ", "a", "\n", "b", "\n", "\n", "c", "\n", "d", "\n", "e", "\n", "f" >>),
    Some(Repeat("x", TitleLimit)),
    Some(Repeat("x", TitleLimit + 1)),
    Some(Repeat("x", TitleLimit - 1) \o << " ", "y" >>) }

CommitResponses == { OcrSuccess(t) : t \in CommitTexts }

NextCommit ==
  \/ scanFiles(<< PngFile >>)
  \/ ReaderLoadStep
  \/ \E i \in 1..Len(requests), resp \in CommitResponses, writeOk \in AlwaysWritable :
       OcrResponse(i, resp, writeOk)
  \/ ScanTimer

SpecCommit == InitComposer /\ [][NextCommit]_vars

\* the same pipeline with no assumption on its scheduling
SpecScan == InitComposer /\ [][NextScan]_vars

\* ------------------------------------------------ mood stickers in isolation
MoodTitles == { << "a" >> }
MoodStickers == { 1, 2 }

NextMood ==
  \/ \E t \in MoodTitles : SetTitle(t)
  \/ \E i \in MoodStickers : SelectMood(i)
  \/ \E writeOk \in AlwaysWritable : handleSubmit(writeOk)

SpecMood == InitComposer /\ [][NextMood]_vars

\* --------------------------------------------------- OCR route in isolation
SpecRoute == InitComposer /\ [][RouteStep]_vars

\* ------------------------------------------- writes that always succeed
\* The three ways of changing the entry list, with a localStorage that
\* accepts every write.
WriteThroughInitialStorage ==
  { raw \in InitialStorage :
      raw.kind = "missing" \/ (raw.kind = "array" /\ Len(raw.items) = 1) }
WriteThroughTitles == { << " ", "a", " " >> }
WriteThroughEdits == { << "c" >> }
WriteThroughResponses ==
  { r \in OcrResponses : r.kind = "response" /\ r.ok /\ r.json /\ r.text.st = "absent" }

InitWriteThrough == InitFrom(WriteThroughInitialStorage, {TRUE})

NextWriteThrough ==
  \/ \E t \in WriteThroughTitles : SetTitle(t)
  \/ \E writeOk \in AlwaysWritable : handleSubmit(writeOk)
  \/ scanFiles(<< PngFile >>)
  \/ ReaderLoadStep
  \/ \E i \in 1..Len(requests), resp \in WriteThroughResponses,
        writeOk \in AlwaysWritable : OcrResponse(i, resp, writeOk)
  \/ \E i \in 1..Len(filteredEntries) : openEntryModal(filteredEntries[i])
  \/ StartEditing
  \/ \E t \in WriteThroughEdits : SetEditing(t, << >>)
  \/ \E writeOk \in AlwaysWritable : saveOpenEntryEdits(writeOk)
  \/ closeOpenEntryModal

SpecWriteThrough == InitWriteThrough /\ [][NextWriteThrough]_vars

\* ------------------------------------------------------------ entry store
Ids(list) == [i \in 1..Len(list) |-> list[i].id]

\* C1: every step that creates an entry (composer submit or scan commit) puts
\* it at index 1 and leaves the earlier entries behind it in their order; no
\* step removes or reorders entries.
C1_NewestFirst ==
  [][/\ Len(entries') \in { Len(entries), Len(entries) + 1 }
     /\ Len(entries') = Len(entries) + 1 => Tail(entries') = entries
     /\ Len(entries') = Len(entries) => Ids(entries') = Ids(entries)]_vars

\* a scan commit on top of a composer submit of this session
C1_Witness ==
  /\ lastOp = "scanImageAndSave:saved"
  /\ Len(entries) = 2
  /\ entries[1].sticker.v.label = "Auto"
  /\ entries[2].sticker.v.label = "New"
  /\ entries[2].id >= 0

\* C2: no two entries of the store have the same id.
C2_UniqueIds ==
  \A i, j \in 1..Len(entries) : i # j => entries[i].id # entries[j].id

\* C3: saving an edit for the id of the open entry rewrites the title and the
\* content of the entries with that id and nothing else: their other fields,
\* the entries with another id, and the order and length of the list stay.
C3_SaveFrame ==
  [][lastOp' = "saveOpenEntryEdits" =>
       /\ Len(entries') = Len(entries)
       /\ \A i \in 1..Len(entries) :
            IF entries[i].id = openEntry.v.id
            THEN entries'[i] = [entries[i] EXCEPT !.title = entries'[i].title,
                                                  !.content = entries'[i].content]
            ELSE entries'[i] = entries[i]]_vars

\* a submitted entry retitled in front of a stored entry with another id
C3_Witness ==
  /\ lastOp = "saveOpenEntryEdits"
  /\ Len(entries) = 2
  /\ entries[1].id # entries[2].id
  /\ entries[1].id = openEntry.v.id
  /\ entries[1].title = << "c" >>
  /\ entries[1].content = NoNotesAdded
  /\ entries[2].title = << "a" >>
  /\ entries[2].content = << "o", "l", "d" >>

\* C4: writing the entry list and reading it back gives the same list in the
\* same order (every entry in memory has a numeric id and a badge list, so
\* the sanitation of the read path drops and defaults nothing).
C4_RoundTrip == readStoredEntries(JSONstringify(entries)) = entries

\* the stored value is the serialization of a list with a scanned entry
C4_Witness ==
  /\ Len(entries) = 2
  /\ storage = JSONstringify(entries)
  /\ entries[1].sticker.v.label = "Auto"
  /\ entries[1].notes = Absent
  /\ Len(entries[2].badges) > 0

\* ---------------------------------------------------------------- composer
SubmitStep == lastOp' \in { "handleSubmit:rejected", "handleSubmit:accepted" }

\* C6: a submit of a draft whose trimmed title and trimmed content are empty
\* and that has no image and no note adds no entry and changes neither the
\* entry list, nor the draft, nor the query.
C6_EmptySubmitRejected ==
  [][(/\ SubmitStep
      /\ Trim(title) = << >>
      /\ Trim(content) = << >>
      /\ Len(placedImages) = 0
      /\ Len(stickyNotes) = 0)
     => /\ lastOp' = "handleSubmit:rejected"
        /\ UNCHANGED << entries, storage, title, content, placedImages,
                        stickyNotes, query >>]_vars

\* a blank, but not empty, draft was submitted while a query was typed
C6_Witness ==
  /\ lastOp = "handleSubmit:rejected"
  /\ content = << "\n" >>
  /\ query # << >>
  /\ entries = << >>

\* C7: the entry of an accepted submit has the trimmed title, or "Untitled
\* memory" when that is empty, and the trimmed content, or "No notes added."
\* when that is empty.
C7_Placeholders ==
  [][lastOp' = "handleSubmit:accepted" =>
       /\ Len(entries') = Len(entries) + 1
       /\ entries'[1].title =
            (IF Trim(title) = << >> THEN UntitledMemory ELSE Trim(title))
       /\ entries'[1].content =
            (IF Trim(content) = << >> THEN NoNotesAdded ELSE Trim(content))]_vars

\* a draft with only a title was accepted
C7_Witness ==
  /\ lastOp = "handleSubmit:accepted"
  /\ entries[1].title = << "a" >>
  /\ entries[1].content = NoNotesAdded
  /\ entries[1].images.v = << >>
  /\ entries[1].notes.v = << >>

NoteKept(note) == Trim(note.text) # << >>

\* C8: an accepted submit empties the title, the content, the placed images
\* and the sticky notes, and the new entry holds the sources of the images and
\* the trimmed, non-empty notes the draft had.
C8_DraftReset ==
  [][lastOp' = "handleSubmit:accepted" =>
       /\ title' = << >>
       /\ content' = << >>
       /\ placedImages' = << >>
       /\ stickyNotes' = << >>
       /\ entries'[1].images.st = "some"
       /\ Len(entries'[1].images.v) = Len(placedImages)
       /\ \A i \in 1..Len(placedImages) :
            entries'[1].images.v[i].src = placedImages[i].src
       /\ entries'[1].notes.st = "some"
       /\ LET kept == SelectSeq(stickyNotes, NoteKept)
          IN /\ Len(entries'[1].notes.v) = Len(kept)
             /\ \A i \in 1..Len(kept) :
                  /\ entries'[1].notes.v[i].text = Trim(kept[i].text)
                  /\ entries'[1].notes.v[i].x = kept[i].x
                  /\ entries'[1].notes.v[i].y = kept[i].y]_vars

\* a draft with an image, a blank note and a written note was accepted
C8_Witness ==
  /\ lastOp = "handleSubmit:accepted"
  /\ stickyNotes = << >>
  /\ placedImages = << >>
  /\ Len(entries[1].images.v) = 1
  /\ Len(entries[1].notes.v) = 1
  /\ entries[1].notes.v[1].y = NoteBaseY + NoteOffsetStep

\* ------------------------------------------------------------------- canvas
\* the position a pointer-move wrote lies in the canvas of rect, for an
\* element of the given height
Clamped(el, rect, height) ==
  /\ 0 <= el.x
  /\ el.x <= Max(rect.width - el.width, 0)
  /\ 0 <= el.y
  /\ el.y <= Max(rect.height - height, 0)

\* C5 as stated: the image height is 0.75 * width (compared in quarter pixels)
C5_ClampExactHeight ==
  [][\A px \in PointerInputs, py \in PointerInputs, rect \in RectInputs :
       PointerMove([clientX |-> px, clientY |-> py], rect) =>
         \A i \in 1..Len(placedImages') :
           placedImages'[i].id = draggingImageId =>
             /\ 0 <= placedImages'[i].y
             /\ 4 * placedImages'[i].y <=
                  Max(4 * rect.height - 3 * placedImages'[i].width, 0)]_vars

\* C5, amended: the position a pointer-move writes satisfies
\* 0 <= x <= max(canvasWidth - width, 0) and 0 <= y <= max(canvasHeight -
\* height, 0), where the height of an image is 0.75 * width rounded to the
\* nearest integer and the height of a note is 136; a canvas smaller than the
\* element on an axis gives 0 on that axis.
C5_Clamp ==
  [][\A px \in PointerInputs, py \in PointerInputs, rect \in RectInputs :
       PointerMove([clientX |-> px, clientY |-> py], rect) =>
         /\ \A i \in 1..Len(placedImages') :
              placedImages'[i].id = draggingImageId =>
                Clamped(placedImages'[i], rect, (3 * placedImages'[i].width + 2) \div 4)
         /\ \A i \in 1..Len(stickyNotes') :
              stickyNotes'[i].id = draggingNoteId =>
                Clamped(stickyNotes'[i], rect, 136)]_vars

\* an image 183 wide was dragged to the bottom of the large canvas
C5_Witness ==
  /\ lastOp = "pointerMove"
  /\ Len(placedImages) = 1
  /\ placedImages[1].width = 183
  /\ placedImages[1].y = 460 - 137
  /\ placedImages[1].x = 0

\* C9: an image drag and a note drag are never active together.
C9_OneDragSession == ~(draggingImageId # Null /\ draggingNoteId # Null)

\* ------------------------------------------------------------ scan pipeline
\* C10: whenever the busy flag is set it is eventually cleared.
C10_ScanSettles == scanBusy ~> ~scanBusy

\* the parts of a source of the shape data:<mime>;base64,<payload>
DataURIShape(src) == Len(src) = 4 /\ src[1] = "data:" /\ src[3] = ";base64,"

\* C11: when the source a file read hands to scanImageAndSave is not of the
\* shape data:<mime>;base64,<payload>, the status becomes "Only local uploaded
\* images can be scanned.", busy becomes false, no OCR request is sent and no
\* entry is added.
C11_NotLocalFails ==
  [][\A i \in 1..Len(readers) : \A src \in ReadResults(readers[i]) :
       (ReaderLoad(i, src) /\ ~DataURIShape(src)) =>
         /\ scanStatus' = "Only local uploaded images can be scanned."
         /\ ~scanBusy'
         /\ requests' = requests
         /\ entries' = entries
         /\ storage' = storage]_vars

\* the read of an empty file gave "data:" while another scan awaits its answer
C11_Witness ==
  /\ lastOp = "scanImageAndSave:notLocal"
  /\ scanStatus = "Only local uploaded images can be scanned."
  /\ ~scanBusy
  /\ Len(requests) = 1
  /\ readers = << >>
  /\ entries = << >>

\* C13: after an answer with a non-success status the scan status is the
\* error text of the body when the body parses, and the raw body otherwise.
C13_FailureStatus ==
  [][\A i \in 1..Len(requests), resp \in OcrResponses, writeOk \in BOOLEAN :
       (OcrResponse(i, resp, writeOk) /\ resp.kind = "response" /\ ~resp.ok) =>
         scanStatus' = (IF resp.json /\ resp.hasError THEN resp.error
                        ELSE resp.body)]_vars

\* the answer was a success: status 200 and a body that parses
Succeeded(resp) == resp.kind = "response" /\ resp.ok /\ resp.json

Labels(badges) == [i \in 1..Len(badges) |-> badges[i].label]

\* C12: every successful OCR answer puts exactly one new entry in front of
\* the list, with the badges "Scanned" then "Journal" and the sticker "Auto";
\* when the text is absent or empty the title is "Scanned Memory" and the
\* summary, the highlights and the extracted text are the placeholders.
C12_ScanCommits ==
  [][\A i \in 1..Len(requests), resp \in CommitResponses, writeOk \in BOOLEAN :
       (OcrResponse(i, resp, writeOk) /\ Succeeded(resp)) =>
         /\ Len(entries') = Len(entries) + 1
         /\ Tail(entries') = entries
         /\ Labels(entries'[1].badges) =
              << << "S", "c", "a", "n", "n", "e", "d" >>, << "J", "o", "u", "r", "n", "a", "l" >> >>
         /\ entries'[1].sticker.v.label = "Auto"
         /\ (resp.text.st = "absent" \/ resp.text.v = << >>) =>
              LET doc == SplitLines(entries'[1].content)
              IN /\ entries'[1].title = << "S", "c", "a", "n", "n", "e", "d", " ", "M", "e", "m", "o", "r", "y" >>
                 /\ Len(doc) = 10
                 /\ doc[4] = << "N", "o", " ", "c", "l", "e", "a", "r", " ", "s", "u", "m", "m", "a", "r", "y", " ", "d", "e", "t", "e", "c", "t", "e", "d", " ", "f", "r", "o", "m", " ", "t", "h", "e", " ", "i", "m", "a", "g", "e", "." >>
                 /\ doc[7] = << "-", " ", "N", "o", " ", "h", "i", "g", "h", "l", "i", "g", "h", "t", "s", " ", "d", "e", "t", "e", "c", "t", "e", "d", "." >>
                 /\ doc[10] = << "N", "o", " ", "r", "e", "a", "d", "a", "b", "l", "e", " ", "t", "e", "x", "t", " ", "f", "o", "u", "n", "d", " ", "i", "n", " ", "t", "h", "i", "s", " ", "i", "m", "a", "g", "e", "." >>]_vars

\* an answer without text was committed on top of an earlier scan
C12_Witness ==
  /\ lastOp = "scanImageAndSave:saved"
  /\ Len(entries) = 2
  /\ entries[1].title = ScannedMemory
  /\ entries[2].title = << "h", "i" >>
  /\ entries[1].sticker.v.label = "Auto"

\* C14: scans proceed independently: every file handed to scanFiles is
\* either still being read, or awaiting its answer, or has its own entry in
\* the list; so two overlapping scans that succeed leave two entries.
C14_BothCommit == Len(entries) + Len(requests) + Len(readers) = scansStarted

\* one scan committed its entry while the other awaited its answer
C14_Witness ==
  /\ lastOp = "scanImageAndSave:saved"
  /\ scansStarted = 2
  /\ Len(entries) = 1
  /\ Len(requests) = 1

\* blank characters other than the newline
IsInlineBlank(c) == IsSpace(c) /\ c # "\n"

\* length of the run of inline blanks s starts with
RECURSIVE InlineBlankRun(_)
InlineBlankRun(s) ==
  IF s = << >> \/ ~IsInlineBlank(Head(s)) THEN 0 ELSE 1 + InlineBlankRun(Tail(s))

\* s without the blanks that stand directly before a newline
RECURSIVE TrimBeforeNewline(_)
TrimBeforeNewline(s) ==
  IF s = << >> THEN << >>
  ELSE LET run == InlineBlankRun(s)
       IN IF run > 0 /\ run < Len(s) /\ s[run + 1] = "\n"
          THEN TrimBeforeNewline(SubSeq(s, run + 1, Len(s)))
          ELSE << Head(s) >> \o TrimBeforeNewline(Tail(s))

\* the normalization as stated: blanks before a newline removed, two or more
\* blank lines made one, a single blank line kept
NormalizedText(rawText) == Trim(ReplaceTripleNewlines(TrimBeforeNewline(rawText)))

EndsWith(s, t) == Len(t) <= Len(s) /\ SubSeq(s, Len(s) - Len(t) + 1, Len(s)) = t

\* C15: the text under "Extracted Text:" is the raw text with the blanks
\* before each newline removed and every run of two or more blank lines made
\* one blank line, a single blank line being kept.
C15_BlankLinesCollapsed ==
  [][\A i \in 1..Len(requests), resp \in CommitResponses, writeOk \in BOOLEAN :
       (/\ OcrResponse(i, resp, writeOk)
        /\ Succeeded(resp)
        /\ resp.text.st = "some"
        /\ NormalizedText(resp.text.v) # << >>)
       => EndsWith(entries'[1].content,
                   << "\n", "E", "x", "t", "r", "a", "c", "t", "e", "d", " ", "T", "e", "x", "t", ":", "\n" >> \o NormalizedText(resp.text.v))]_vars

\* L: the non-empty trimmed lines of the cleaned text
CleanedLines(rawText) ==
  SelectSeq(MapSeq(SplitLines(cleanText(rawText)), Trim), NonEmpty)

Ellipsis == << ".", ".", "." >>

\* the summary and the highlights of the entry are those of the lines L
SummaryAndHighlightsOf(entry, L) ==
  LET doc == SplitLines(entry.content)
      n == Min(5, Len(L))
  IN IF L = << >>
     THEN /\ doc[4] = << "N", "o", " ", "c", "l", "e", "a", "r", " ", "s", "u", "m", "m", "a", "r", "y", " ", "d", "e", "t", "e", "c", "t", "e", "d", " ", "f", "r", "o", "m", " ", "t", "h", "e", " ", "i", "m", "a", "g", "e", "." >>
          /\ doc[7] = << "-", " ", "N", "o", " ", "h", "i", "g", "h", "l", "i", "g", "h", "t", "s", " ", "d", "e", "t", "e", "c", "t", "e", "d", "." >>
          /\ doc[8] = << >>
     ELSE /\ doc[4] = (IF Len(L) = 1 THEN L[1] ELSE L[1] \o << " " >> \o L[2])
          /\ \A k \in 1..n : doc[6 + k] = << "-", " " >> \o L[k]
          /\ doc[7 + n] = << >>

\* C16 as stated: the title is the first line of L, or its first 64
\* characters and an ellipsis when it is longer.
C16_TemplateExactSlice ==
  [][\A i \in 1..Len(requests), resp \in CommitResponses, writeOk \in BOOLEAN :
       (OcrResponse(i, resp, writeOk) /\ Succeeded(resp)) =>
         LET L == CleanedLines(IF resp.text.st = "some" THEN resp.text.v ELSE << >>)
         IN /\ SummaryAndHighlightsOf(entries'[1], L)
            /\ entries'[1].title =
                 (IF L = << >> THEN << "S", "c", "a", "n", "n", "e", "d", " ", "M", "e", "m", "o", "r", "y" >>
                  ELSE IF Len(L[1]) <= 64 THEN L[1]
                  ELSE SubSeq(L[1], 1, 64) \o Ellipsis)]_vars

\* C16, amended: with L the non-empty trimmed lines of the cleaned text, the
\* summary is the first two lines of L joined by a space, the highlights are
\* the first five lines of L each after "- ", and the title is the first line
\* of L when it has at most 64 characters and otherwise its first 64
\* characters, without the blanks they end with, followed by "..."; when L is
\* empty the placeholders are used.
C16_Template ==
  [][\A i \in 1..Len(requests), resp \in CommitResponses, writeOk \in BOOLEAN :
       (OcrResponse(i, resp, writeOk) /\ Succeeded(resp)) =>
         LET L == CleanedLines(IF resp.text.st = "some" THEN resp.text.v ELSE << >>)
         IN /\ SummaryAndHighlightsOf(entries'[1], L)
            /\ entries'[1].title =
                 (IF L = << >> THEN << "S", "c", "a", "n", "n", "e", "d", " ", "M", "e", "m", "o", "r", "y" >>
                  ELSE IF Len(L[1]) <= 64 THEN L[1]
                  ELSE TrimEnd(SubSeq(L[1], 1, 64)) \o Ellipsis)]_vars

\* a first line of 65 characters whose 64th is a blank was committed
C16_Witness ==
  /\ lastOp = "scanImageAndSave:saved"
  /\ Len(entries[1].title) = 66
  /\ entries[1].title = Repeat("x", 63) \o Ellipsis

\* ------------------------------------------------------------- browse view
\* the label is a date, and the day it names
IsDateLabel(label) == Len(label) = 2 /\ label[1] = "day"
DayOfLabel(label) == label[2]
DayOfKey(key) == key[2]

\* the entry is shown
Shown(entry) == \E i \in 1..Len(filteredEntries) : filteredEntries[i] = entry

\* C17: with no date selected every entry passes the date filter; with a
\* date selected an entry passes exactly when its label is a date of the
\* selected day; an entry whose label is not a date is in no date-filtered
\* view and not in the calendar index, and is in the unfiltered view.
C17_DateFilter ==
  \A i \in 1..Len(entries) :
    LET entry == entries[i]
        sameDay == /\ IsDateLabel(entry.dateLabel)
                   /\ DayOfLabel(entry.dateLabel) = DayOfKey(selectedDateKey)
    IN /\ selectedDateKey = NullKey => MatchesDate(entry)
       /\ selectedDateKey # NullKey => (MatchesDate(entry) <=> sameDay)
       /\ (selectedDateKey # NullKey /\ Trim(query) = << >>) =>
            (Shown(entry) <=> sameDay)
       /\ ~IsDateLabel(entry.dateLabel) =>
            /\ selectedDateKey # NullKey => ~Shown(entry)
            /\ Trim(query) = << >> /\ selectedDateKey = NullKey => Shown(entry)
       /\ IsDateLabel(entry.dateLabel) =>
            \E key \in DOMAIN entryDates : DayOfKey(key) = DayOfLabel(entry.dateLabel)
       /\ \A key \in DOMAIN entryDates :
            entryDates[key] =
              Cardinality({ j \in 1..Len(entries) :
                              /\ IsDateLabel(entries[j].dateLabel)
                              /\ DayOfLabel(entries[j].dateLabel) = DayOfKey(key) })

\* the day of a submitted entry is selected: the entry is shown and the
\* stored entry whose label is not a date is hidden and has no day in the index
C17_Witness ==
  /\ lastOp = "toggleDate"
  /\ selectedDateKey # NullKey
  /\ Len(entries) = 2
  /\ ~IsDateLabel(entries[2].dateLabel)
  /\ filteredEntries = << entries[1] >>
  /\ DOMAIN entryDates = { selectedDateKey }

\* pat occurs in s when the case of the letters is ignored
OccursIgnoringCase(s, pat) ==
  \E i \in 1..(Len(s) - Len(pat) + 1) :
    \A k \in 1..Len(pat) : LowerChar(s[i + k - 1]) = LowerChar(pat[k])

\* q is the empty text or occurs in the title, the content or a badge label
TextMatches(entry, q) ==
  \/ q = << >>
  \/ OccursIgnoringCase(entry.title, q)
  \/ OccursIgnoringCase(entry.content, q)
  \/ \E i \in 1..Len(entry.badges) : OccursIgnoringCase(entry.badges[i].label, q)

\* C18 as stated: the view is the entries, in store order, that pass the
\* date filter and have the query as a case-insensitive substring.
C18_TextFilterUntrimmed ==
  LET Test(entry) == MatchesDate(entry) /\ TextMatches(entry, query)
  IN filteredEntries = SelectSeq(entries, Test)

\* C18, amended: the view is the entries, in store order, that pass the date
\* filter and for which the query without its leading and trailing
\* whitespace is empty or is a case-insensitive substring of the title, of
\* the content or of a badge label.
C18_TextFilter ==
  LET Test(entry) == MatchesDate(entry) /\ TextMatches(entry, Trim(query))
  IN filteredEntries = SelectSeq(entries, Test)

\* a padded query in mixed case shows the entry with a Journal badge only
C18_Witness ==
  /\ lastOp = "setQuery"
  /\ query = << " ", "j", "O", "u", "r" >>
  /\ selectedDateKey = NullKey
  /\ Len(entries) = 2
  /\ filteredEntries = << entries[1] >>
  /\ Len(entries[2].badges) = 0

\* ----------------------------------------------------------------- storage
UnreadableKinds == { "unavailable", "missing", "empty", "invalid" }

\* C19: no exception leaves readStoredProfile or readStoredEntries; after the
\* first render the profile is null when storage is unavailable, the key is
\* absent, the value does not parse or has no name or no gender, and the
\* entry list is empty when storage is unavailable, the key is absent, or the
\* value does not parse or is not a list.
C19_ReadsNeverRaise ==
  /\ lastOp # "mount:raised"
  /\ lastOp = "mount" =>
       /\ profileStorage.kind \in UnreadableKinds =>
            profile.st = "absent" /\ showOnboarding
       /\ (/\ profileStorage.kind = "value"
           /\ ~(profileStorage.hasName /\ profileStorage.hasGender)) =>
            profile.st = "absent" /\ showOnboarding
       /\ storage.kind \in UnreadableKinds \cup { "notArray" } => entries = << >>

\* the first render with a localStorage whose getItem throws
C19_Witness ==
  /\ lastOp = "mount"
  /\ profileStorage.kind = "unavailable"
  /\ storage.kind = "unavailable"
  /\ profile.st = "absent"
  /\ showOnboarding
  /\ entries = << >>

EntryWrites == { "handleSubmit:accepted", "saveOpenEntryEdits", "scanImageAndSave:saved" }

\* C20: when setItem throws in a step that sets the entry list or the
\* profile, the stored value stays as it was, the list or the profile has
\* its new value (the onboarding is closed), and no status is shown; the
\* stored values change in no other step, so no write is retried or queued.
C20_WriteFailureSilent ==
  [][/\ (handleSubmit(FALSE) /\ ~SubmitRejected) =>
          /\ storage' = storage
          /\ Len(entries') = Len(entries) + 1
          /\ entries'[1].id = now
          /\ Tail(entries') = entries
          /\ UNCHANGED << scanStatus, scanDialogOpen >>
     /\ saveOpenEntryEdits(FALSE) =>
          /\ storage' = storage
          /\ \E i \in 1..Len(entries') :
               /\ entries'[i].id = openEntry.v.id
               /\ entries'[i].title = OrElse(Trim(editingTitle), UntitledMemory)
          /\ UNCHANGED << scanStatus, scanDialogOpen >>
     /\ (saveProfile(FALSE) /\ Trim(nameInput) # << >>) =>
          /\ profileStorage' = profileStorage
          /\ profile'.st = "some"
          /\ profile'.v.name = Trim(nameInput)
          /\ profile'.v.gender = genderInput
          /\ ~showOnboarding'
          /\ UNCHANGED << scanStatus, scanDialogOpen >>
     /\ lastOp' \notin EntryWrites => storage' = storage
     /\ lastOp' # "saveProfile" => profileStorage' = profileStorage]_vars

\* the profile and an entry were set while every write threw
C20_Witness ==
  /\ lastOp = "handleSubmit:accepted"
  /\ Len(entries) = 1
  /\ storage.kind = "missing"
  /\ profile.st = "some"
  /\ profile.v.name = << "B", "o" >>
  /\ ~showOnboarding
  /\ profileStorage.kind = "missing"

\* C21: when localStorage accepts the writes, after every change of the
\* entry list (submit, scan commit, saved edit) the stored value is the
\* serialization of the whole current list, whatever was stored before.
C21_WriteThrough == storage = JSONstringify(entries)

\* an edit was saved after a submit and a scan commit
C21_Witness ==
  /\ lastOp = "saveOpenEntryEdits"
  /\ Len(entries) = 2
  /\ entries[1].sticker.v.label = "Auto"
  /\ entries[2].sticker.v.label = "New"
  /\ entries[2].title = << "c" >>
  /\ storage.items[2].entry.title = << "c" >>
  /\ Len(storage.items) = 2

AttemptFailed(ans) == ~ans.ok \/ AnswerRaises(ans)

\* C23: the models are tried in their fixed order, one at a time; the text
\* of the first attempt that succeeds is returned and no later model is
\* tried; when every attempt fails, whatever the failure, the response is
\* 502 with details equal to the last model's parsed or raw error message.
C23_Fallback ==
  /\ Len(route.calls) <= Len(models)
  /\ \A i \in 1..Len(route.calls) : route.calls[i].model = models[i]
  /\ Len(route.calls) - Len(route.answers) \in { 0, 1 }
  /\ \A i \in 1..Len(route.answers) :
       ~AttemptFailed(route.answers[i]) =>
         /\ i = Len(route.calls)
         /\ route.pc = "done"
         /\ route.response = TextResponse(extractText(route.answers[i].payload))
  /\ (route.pc = "done" /\ route.answers # << >>
        /\ \A i \in 1..Len(route.answers) : AttemptFailed(route.answers[i])) =>
       /\ Len(route.answers) = Len(models)
       /\ route.response.status = 502
       /\ route.response.details =
            Some(ParsedOrRaw(route.answers[Len(models)].body))

\* ------------------------------------------------------------------- badges
\* useState("Feeling Good"): the mood before any sticker is clicked
InitialMood == Feeling \o << "G", "o", "o", "d" >>

\* the mood is the one a click on some sticker leaves behind
StickerSelected == \E i \in 1..Len(moodStickers) : mood = Feeling \o moodStickers[i].title

\* the badges of the entry an accepted submit puts in front: the title of
\* the sticker selected last, or the given label when none was selected,
\* followed by the Journal badge
SubmitBadges(unselected) ==
  lastOp' = "handleSubmit:accepted" =>
    /\ Len(entries'[1].badges) = 2
    /\ entries'[1].badges[2] = JournalBadge
    /\ entries'[1].badges[1].icon = "mood"
    /\ \A i \in 1..Len(moodStickers) :
         mood = Feeling \o moodStickers[i].title =>
           entries'[1].badges[1].label = moodStickers[i].title
    /\ ~StickerSelected => entries'[1].badges[1].label = unselected

\* C24 as stated: the first badge of a submitted entry carries the title of
\* the mood sticker selected last, and the label "Mood" when no sticker has
\* been selected since startup; the second badge is the Journal badge.
C24_MoodBadgeDefaultMood == [][SubmitBadges(<< "M", "o", "o", "d" >>)]_vars

\* C24, amended: the first badge of a submitted entry carries the title of
\* the mood sticker selected last, and the label "Good" when no sticker has
\* been selected since startup; the second badge is the Journal badge.
C24_MoodBadge == [][SubmitBadges(<< "G", "o", "o", "d" >>)]_vars

\* an entry submitted before any sticker was clicked lies behind one
\* submitted after a click on the Calm sticker
C24_Witness ==
  /\ lastOp = "handleSubmit:accepted"
  /\ Len(entries) = 2
  /\ entries[2].badges[1].label = << "G", "o", "o", "d" >>
  /\ entries[1].badges[1].label = << "C", "a", "l", "m" >>
  /\ entries[1].badges[2] = JournalBadge

\* --------------------------------------------------------------- drag ends
NoDrag == draggingImageId = Null /\ draggingNoteId = Null

\* C25: a pointer-up leaves no drag id set; from then on the ids stay unset
\* until a pointer-down on an image or a note, and every pointer-move in
\* between leaves all images and notes where they are.
C25_PointerUpEndsDrag ==
  [][/\ lastOp' = "pointerUp" => NoDrag'
     /\ (NoDrag /\ lastOp' \notin { "startImageDrag", "startNoteDrag" }) => NoDrag'
     /\ (NoDrag /\ lastOp' \in { "pointerMove", "pointerMove:unheard" }) =>
          /\ placedImages' = placedImages
          /\ stickyNotes' = stickyNotes]_vars

\* after a drag that moved a note and an image, a pointer-move is made
\* with the pointer released
C25_Witness ==
  /\ lastOp = "pointerMove:unheard"
  /\ NoDrag
  /\ Len(stickyNotes) = 1
  /\ Len(placedImages) = 1
  /\ stickyNotes[1].x # NoteBaseX
  /\ placedImages[1].x # DefaultImageX

\* ----------------------------------------------------------- failed scans
ErrorStatuses ==
  { "Only local uploaded images can be scanned.", "Gemini OCR failed.",
    "Could not scan this image.", "Gemini OCR request failed." }

\* the dialog shows the error of a scan that failed
FailureShown == scanDialogOpen /\ scanStatus \in ErrorStatuses

\* the close button, and the steps by which a scan reports its own progress
ManualOrProgress ==
  { "closeScanDialog", "scanFiles", "scanFiles:empty", "scanImageAndSave:notLocal",
    "scanImageAndSave:fetch", "scanImageAndSave:saved", "scanImageAndSave:failed" }

\* C26: while the dialog shows the error of a failed scan, no step other
\* than the close button (and the status reports of scans) closes the dialog
\* or changes the message; in particular the timer of a successful scan
\* does not.
C26_FailureStays ==
  [][(FailureShown /\ lastOp' \notin ManualOrProgress) =>
       (scanDialogOpen' /\ scanStatus' = scanStatus)]_vars

\* ------------------------------------------------------------ note cascade
\* C27: a note added by addStickyNote is placed at the base position plus
\* the offset step times the number of notes on the canvas, and no note
\* already on the canvas is at exactly that position.
C27_Cascade ==
  [][lastOp' = "addStickyNote" =>
       LET new == stickyNotes'[Len(stickyNotes')]
       IN /\ Len(stickyNotes') = Len(stickyNotes) + 1
          /\ new.x = NoteBaseX + NoteOffsetStep * Len(stickyNotes)
          /\ new.y = NoteBaseY + NoteOffsetStep * Len(stickyNotes)
          /\ \A i \in 1..Len(stickyNotes) :
               ~(stickyNotes[i].x = new.x /\ stickyNotes[i].y = new.y)]_vars

\* ---------------------------------------------------------------- busy flag
\* a scan is still reading its file or awaiting the answer of /api/ocr
InFlight == readers # << >> \/ requests # << >>

\* C28: the busy flag is set in every state in which a scan is in flight,
\* so that the close button of the dialog, rendered only when the flag is
\* clear, cannot close the dialog during a scan.
C28_BusyWhileInFlight ==
  /\ InFlight => scanBusy
  /\ (InFlight /\ scanDialogOpen) => ~ENABLED CloseScanDialog

\* ------------------------------------------------------- admitted records
\* C29: every entry in the store has a text for its title and for its
\* content and a list for its badges, and computing the filtered view does
\* not raise, whatever the stored list, the query and the selected date.
C29_AdmittedWellFormed ==
  /\ \A i \in 1..Len(entries) :
       /\ IsText(entries[i].title)
       /\ IsText(entries[i].content)
       /\ DOMAIN entries[i].badges = 1..Len(entries[i].badges)
  /\ ~FilterRaises

\* ------------------------------------------------------------ drag frame
\* the elements of a list that a step changed
ChangedIn(before, after) == { i \in 1..Len(before) : after[i] # before[i] }

\* C30: a pointer-move during a drag keeps both lists at their lengths and
\* changes at most one element of the canvas, the dragged one, in nothing
\* but its x and y; when no element has the id being dragged it changes
\* nothing.
C30_MoveFrame ==
  [][lastOp' = "pointerMove" =>
       /\ Len(placedImages') = Len(placedImages)
       /\ Len(stickyNotes') = Len(stickyNotes)
       /\ Cardinality(ChangedIn(placedImages, placedImages'))
            + Cardinality(ChangedIn(stickyNotes, stickyNotes')) <= 1
       /\ \A i \in ChangedIn(placedImages, placedImages') :
            /\ placedImages[i].id = draggingImageId
            /\ placedImages'[i] =
                 [placedImages[i] EXCEPT !.x = placedImages'[i].x,
                                         !.y = placedImages'[i].y]
       /\ \A i \in ChangedIn(stickyNotes, stickyNotes') :
            /\ stickyNotes[i].id = draggingNoteId
            /\ stickyNotes'[i] =
                 [stickyNotes[i] EXCEPT !.x = stickyNotes'[i].x,
                                        !.y = stickyNotes'[i].y]
       /\ (\A i \in 1..Len(placedImages) : placedImages[i].id # draggingImageId) =>
            placedImages' = placedImages
       /\ (\A i \in 1..Len(stickyNotes) : stickyNotes[i].id # draggingNoteId) =>
            stickyNotes' = stickyNotes]_vars

====
